---- MODULE Spec2Model ----
(***************************************************************************)
(* Model of the three Singularity launchers of ProteinStruct-Containers:   *)
(*   src/boltz/run_boltz_launcher.py      (launcher "boltz")               *)
(*   src/chai_1/run_chailab_launcher.py   (launcher "chai")                *)
(*   src/run_alphafold3_launcher.py       (launcher "af3")                 *)
(*                                                                         *)
(* Representation.                                                         *)
(*  - A path string is a record [abs, parts]: abs says whether it starts   *)
(*    with "/", parts are its components ("." and ".." included, as the    *)
(*    user typed them).  The empty string is [abs |-> FALSE, parts |-> <<>>].*)
(*  - A value that may be None is a sequence of length <= 1: <<>> is None.  *)
(*  - A mount point name is a string; Spelling gives its characters, so    *)
(*    that str.startswith is computed on them.                             *)
(*  - The host filesystem is [dirs, files]: two sets of absolute,          *)
(*    normalised component sequences; <<>> is the root directory.          *)
(*  - An argument f'--name={value}' is the pair <<"--name", value>>, a      *)
(*    literal argument is the 1-tuple of its text, and a positional path   *)
(*    argument is the pair <<"", path>>.                                    *)
(*  - A bind spec f'{source}:{target}' is <<source, target>>, and          *)
(*    <<source, target, "ro">> with the suffix ':ro'.                       *)
(***************************************************************************)
EXTENDS Integers, Sequences, FiniteSets, TLC

VARIABLES
    launcher,     \* which of the three scripts runs
    env,          \* os.environ at start-up (the variables the scripts read)
    argv,         \* the argv app.run hands to main: the script, then the
                  \* positional arguments of the command line
    flags,        \* FLAGS after parsing (defaults applied)
    fs,           \* the host filesystem
    fs0,          \* the host filesystem when the process started (history)
    pc,           \* position of the launcher in its script
    binds,        \* the list `binds`
    args,         \* boltz_args / chai_command_args / command_args
    cpaths,       \* container paths returned by _create_bind, by mount name
    command,      \* the full command handed to Client.execute
    options,      \* the Singularity options handed to Client.execute
    sif,          \* the image path the script settled on (None before that)
    exit_code,    \* <<>> while running, <<n>> once the process has exited
    log,          \* what was printed / logged, in order
    bind_calls,   \* the calls of _create_bind made so far, in order
    invocations,  \* how many times Client.execute was called
    cstate,       \* the container process: "none", "running", "closed", "failed", "hung"
    produced,     \* lines the container has written to its output stream
    printed       \* lines the launcher has printed

vars == <<launcher, env, argv, flags, fs, fs0, pc, binds, args, cpaths,
          command, options, sif, exit_code, log, bind_calls, invocations, cstate, produced,
          printed>>

----------------------------------------------------------------------------
(* Optional values (Python None) *)

None == <<>>

Some(v) == <<v>>

IsNone(o) == o = <<>>

----------------------------------------------------------------------------
(* Path strings *)

P(a, ps) == [abs |-> a, parts |-> ps]

EmptyStr == P(FALSE, <<>>)

\* truth value of a path string: only '' is falsy
StrTruthy(p) == p # EmptyStr

\* truth value of an optional string flag: None and '' are falsy
Truthy(o) == o # None /\ StrTruthy(o[1])

\* os.getcwd() and the home directory of the user (~)
Cwd == <<"work">>

Home == <<"home">>

\* os.path.normpath on the components of an absolute path
RECURSIVE NormParts(_, _)
NormParts(done, rest) ==
    IF rest = <<>> THEN done
    ELSE LET c == Head(rest) IN
         IF c = "." THEN NormParts(done, Tail(rest))
         ELSE IF c = ".."
              THEN NormParts(IF done = <<>> THEN <<>>
                             ELSE SubSeq(done, 1, Len(done) - 1), Tail(rest))
              ELSE NormParts(Append(done, c), Tail(rest))

\* os.path.abspath(p): join with the working directory when relative, normalise
abspath(p) ==
    P(TRUE, NormParts(<<>>, IF p.abs THEN p.parts ELSE Cwd \o p.parts))

\* the home directory os.path.expanduser puts in place of a leading component:
\* HOME for "~", the pw_dir of the password database for "~user" when the
\* database has the user (it has root), nothing for another user
UserHome(c) ==
    CASE c = "~"     -> Some(Home)
      [] c = "~root" -> Some(<<"root">>)
      [] OTHER       -> None

\* os.path.expanduser(p): a leading "~" or "~user" component becomes the home
\* directory; a path with an unknown user is returned as it is
expanduser(p) ==
    IF ~p.abs /\ p.parts # <<>> /\ UserHome(Head(p.parts)) # None
    THEN P(TRUE, UserHome(Head(p.parts))[1] \o Tail(p.parts))
    ELSE p

\* os.path.dirname / os.path.basename of an absolute normalised path
dirname(p) ==
    P(p.abs, IF p.parts = <<>> THEN <<>> ELSE SubSeq(p.parts, 1, Len(p.parts) - 1))

basename(p) ==
    P(FALSE, IF p.parts = <<>> THEN <<>> ELSE <<p.parts[Len(p.parts)]>>)

\* os.path.join(a, b)
join(a, b) == IF b.abs THEN b ELSE P(a.abs, a.parts \o b.parts)

----------------------------------------------------------------------------
(* Host filesystem *)

\* the directory that holds entry e
Parent(e) == IF e = <<>> THEN <<>> ELSE SubSeq(e, 1, Len(e) - 1)

\* the components of os.path.abspath(p)
AbsParts(p) == abspath(p).parts

\* The operating system resolves a path component by component from the
\* directory `cur`: every component, ".." and "." included, is looked up in a
\* directory that exists.  The result is the entry found (`at`), or the error
\* of the lookup: ENOTDIR when a component is looked up in a regular file,
\* ENOENT when a name is missing.
RECURSIVE Walk(_, _, _)
Walk(f, cur, rest) ==
    IF cur \in f.files /\ rest # <<>> THEN [err |-> "NotADirectoryError", at |-> <<>>]
    ELSE IF cur \notin f.dirs \cup f.files THEN [err |-> "FileNotFoundError", at |-> <<>>]
    ELSE IF rest = <<>> THEN [err |-> "", at |-> cur]
    ELSE LET c == Head(rest) IN
         Walk(f, IF c = "." THEN cur
                 ELSE IF c = ".." THEN Parent(cur)
                 ELSE Append(cur, c),
              Tail(rest))

\* the entry a lookup found, None when it failed
Found(w) == IF w.err = "" THEN Some(w.at) ELSE None

\* the entry a path string names for the operating system (stat); the empty
\* string names nothing
Resolve(f, p) ==
    IF p = EmptyStr THEN None ELSE Found(Walk(f, IF p.abs THEN <<>> ELSE Cwd, p.parts))

exists(f, p) == Resolve(f, p) # None

isdir(f, p) == Resolve(f, p) \in {Some(d) : d \in f.dirs}

isfile(f, p) == Resolve(f, p) \in {Some(x) : x \in f.files}

\* bool(os.listdir(p)) for an existing directory p
listdir_nonempty(f, p) ==
    \E e \in f.dirs \cup f.files : e # <<>> /\ Resolve(f, p) = Some(Parent(e))

\* the element of a one-element set; {e(v) : v \in {x}} computes x once,
\* as a call computes its argument once
The(S) == CHOOSE x \in S : TRUE

\* a call that raises nothing and leaves the filesystem f
NoError(f) == [err |-> "", fs |-> f]

\* os.mkdir of the entry c in `dir`, the lookup of the path before it
mkdir_in(f, dir, c) ==
    IF dir.err # "" THEN [err |-> dir.err, fs |-> f]
    ELSE IF dir.at \notin f.dirs THEN [err |-> "NotADirectoryError", fs |-> f]
    ELSE IF c \in {".", ".."} \/ Append(dir.at, c) \in f.dirs \cup f.files
         THEN [err |-> "FileExistsError", fs |-> f]
         ELSE NoError([f EXCEPT !.dirs = @ \cup {Append(dir.at, c)}])

\* os.mkdir(p): the error it raises ("" for none) and the filesystem afterwards
mkdir(f, p) ==
    IF p = EmptyStr THEN [err |-> "FileNotFoundError", fs |-> f]
    ELSE IF p.parts = <<>> THEN [err |-> "FileExistsError", fs |-> f]
    ELSE The({mkdir_in(f, dir, p.parts[Len(p.parts)]) :
                 dir \in {Walk(f, IF p.abs THEN <<>> ELSE Cwd, Parent(p.parts))}})

\* head of os.path.split(name)
split_head(name) == P(name.abs, Parent(name.parts))

\* the test of os.makedirs for making the head first: head and tail are not
\* empty and head does not exist
makedirs_descends(f, name) ==
    name.parts # <<>> /\ split_head(name) # EmptyStr /\ ~exists(f, split_head(name))

\* the end of os.makedirs: r is the outcome of mkdir(name), whose error is
\* dropped when name is a directory
makedirs_end(r, name) == IF r.err # "" /\ isdir(r.fs, name) THEN NoError(r.fs) ELSE r

\* os.makedirs after its head: r1 is the outcome of making the head, whose
\* FileExistsError is passed over; `stop` when the head was made and the tail
\* is "."
makedirs_tail(r1, name, stop) ==
    IF r1.err \notin {"", "FileExistsError"} THEN r1
    ELSE IF stop THEN NoError(r1.fs)
    ELSE The({makedirs_end(r, name) : r \in {mkdir(r1.fs, name)}})

\* os.makedirs(name, exist_ok=True) as the library runs it: split name into
\* head and tail, make head first when it does not exist, then mkdir(name).
\* The result is the error raised ("" for none) and the filesystem afterwards.
RECURSIVE makedirs_run(_, _)
makedirs_run(f, name) ==
    The({makedirs_tail(r1, name,
                       makedirs_descends(f, name) /\ name.parts[Len(name.parts)] = ".") :
            r1 \in {IF makedirs_descends(f, name)
                    THEN makedirs_run(f, split_head(name))
                    ELSE NoError(f)}})

\* a variant without exist_ok: an existing directory makes os.makedirs raise
makedirs_no_exist_ok(f, p) == makedirs_run(f, p).err # "" \/ isdir(f, p)

\* os.makedirs(p, exist_ok=True) raises
makedirs_raises(f, p) == makedirs_run(f, p).err # ""

\* os.makedirs(p, exist_ok=True): the filesystem afterwards
makedirs(f, p) == makedirs_run(f, p).fs

----------------------------------------------------------------------------
(* Mount point names *)

\* every mount point name the launchers pass to _create_bind, and two more
\* ("output_extra", "tmp_extra") to exercise the name tests of _create_bind
MountNames ==
    {"input_data", "output", "boltz_cache", "checkpoint_file", "tmp", "fasta", "msa_dir", "constraints", "template_hits",
     "input_dir", "json_input", "models", "db_0", "db_1", "db_2", "db_3", "output_extra", "tmp_extra"}

\* the characters of a mount point name
Spelling(n) ==
    CASE
       n = "input_data" -> <<"i", "n", "p", "u", "t", "_", "d", "a", "t", "a">>
    [] n = "output" -> <<"o", "u", "t", "p", "u", "t">>
    [] n = "boltz_cache" -> <<"b", "o", "l", "t", "z", "_", "c", "a", "c", "h", "e">>
    [] n = "checkpoint_file" -> <<"c", "h", "e", "c", "k", "p", "o", "i", "n", "t", "_", "f", "i", "l", "e">>
    [] n = "tmp" -> <<"t", "m", "p">>
    [] n = "fasta" -> <<"f", "a", "s", "t", "a">>
    [] n = "msa_dir" -> <<"m", "s", "a", "_", "d", "i", "r">>
    [] n = "constraints" -> <<"c", "o", "n", "s", "t", "r", "a", "i", "n", "t", "s">>
    [] n = "template_hits" -> <<"t", "e", "m", "p", "l", "a", "t", "e", "_", "h", "i", "t", "s">>
    [] n = "input_dir" -> <<"i", "n", "p", "u", "t", "_", "d", "i", "r">>
    [] n = "json_input" -> <<"j", "s", "o", "n", "_", "i", "n", "p", "u", "t">>
    [] n = "models" -> <<"m", "o", "d", "e", "l", "s">>
    [] n = "db_0" -> <<"d", "b", "_", "0">>
    [] n = "db_1" -> <<"d", "b", "_", "1">>
    [] n = "db_2" -> <<"d", "b", "_", "2">>
    [] n = "db_3" -> <<"d", "b", "_", "3">>
    [] n = "output_extra" -> <<"o", "u", "t", "p", "u", "t", "_", "e", "x", "t", "r", "a">>
    [] n = "tmp_extra" -> <<"t", "m", "p", "_", "e", "x", "t", "r", "a">>

\* str.startswith
startswith(n, prefix) ==
    /\ Len(Spelling(n)) >= Len(Spelling(prefix))
    /\ SubSeq(Spelling(n), 1, Len(Spelling(prefix))) = Spelling(prefix)

\* f'db_{i}'
DbName(i) ==
    CASE i = 0 -> "db_0" [] i = 1 -> "db_1" [] i = 2 -> "db_2" [] i = 3 -> "db_3"

\* _ROOT_MOUNT_DIRECTORY of each script
ROOT_MOUNT_DIRECTORY(l) ==
    IF l = "boltz" THEN P(TRUE, <<"mnt_launcher">>) ELSE P(TRUE, <<"mnt">>)

----------------------------------------------------------------------------
(* _create_bind.  The result is a record:                                   *)
(*   outcome        "return", "exit" (sys.exit(1)) or "raise" (os.makedirs  *)
(*                  raised, the exception is not caught anywhere)           *)
(*   fs             the host filesystem afterwards                          *)
(*   bind_spec      the first component of the returned tuple               *)
(*   container_path the second component of the returned tuple              *)
(*   source_path    the host side of the bind                               *)

BindResult(outcome, f, source_path, target_base, container_path, read_only) ==
    [outcome        |-> outcome,
     fs             |-> f,
     bind_spec      |-> IF read_only THEN <<source_path, target_base, "ro">>
                        ELSE <<source_path, target_base>>,
     container_path |-> container_path,
     source_path    |-> source_path]

\* the test of line 80 of the Boltz script
boltz_creates_dir(name) ==
    startswith(name, "output") \/ name = "tmp" \/ name = "boltz_cache"

\* the test of line 77 (Chai Lab) and of line 188 (AlphaFold3)
creates_dir(name) == startswith(name, "output") \/ name = "tmp"

boltz_create_bind(f, mount_point_name, host_path0, is_dir, read_only) ==
    LET host_path   == abspath(expanduser(host_path0))
        target_base == join(ROOT_MOUNT_DIRECTORY("boltz"), P(FALSE, <<mount_point_name>>))
        source_path == IF is_dir THEN host_path ELSE dirname(host_path)
        target_path_container ==
            IF is_dir THEN target_base ELSE join(target_base, basename(host_path))
    IN  IF boltz_creates_dir(mount_point_name)
        THEN IF makedirs_raises(f, host_path)
             THEN BindResult("raise", makedirs(f, host_path), source_path, target_base,
                             target_path_container, read_only)
             ELSE BindResult("return", makedirs(f, host_path), source_path,
                             target_base, target_path_container, read_only)
        ELSE IF ~exists(f, source_path)
             THEN BindResult("exit", f, source_path, target_base,
                             target_path_container, read_only)
             ELSE BindResult("return", f, source_path, target_base,
                             target_path_container, read_only)

\* a variant that returns the mount directory also for a file
chai_create_bind_no_basename(f, mount_point_name, host_path0, is_dir) ==
    LET host_path   == abspath(host_path0)
        target_path == join(ROOT_MOUNT_DIRECTORY("chai"), P(FALSE, <<mount_point_name>>))
        source_path == IF is_dir THEN host_path ELSE dirname(host_path)
    IN  IF creates_dir(mount_point_name)
        THEN IF makedirs_raises(f, source_path)
             THEN BindResult("raise", makedirs(f, source_path), source_path, target_path,
                             target_path, FALSE)
             ELSE BindResult("return", makedirs(f, source_path), source_path,
                             target_path, target_path, FALSE)
        ELSE IF ~exists(f, source_path)
             THEN BindResult("exit", f, source_path, target_path, target_path, FALSE)
             ELSE BindResult("return", f, source_path, target_path, target_path, FALSE)

chai_create_bind(f, mount_point_name, host_path0, is_dir) ==
    LET host_path   == abspath(host_path0)
        target_base == join(ROOT_MOUNT_DIRECTORY("chai"), P(FALSE, <<mount_point_name>>))
        source_path == IF is_dir THEN host_path ELSE dirname(host_path)
        target_path == target_base
        container_path ==
            IF is_dir THEN target_path ELSE join(target_path, basename(host_path))
    IN  IF creates_dir(mount_point_name)
        THEN IF makedirs_raises(f, source_path)
             THEN BindResult("raise", makedirs(f, source_path), source_path, target_path,
                             container_path, FALSE)
             ELSE BindResult("return", makedirs(f, source_path), source_path,
                             target_path, container_path, FALSE)
        ELSE IF ~exists(f, source_path)
             THEN BindResult("exit", f, source_path, target_path, container_path, FALSE)
             ELSE BindResult("return", f, source_path, target_path, container_path, FALSE)

af3_create_bind(f, mount_point_name, host_path0, is_dir) ==
    LET host_path   == abspath(host_path0)
        target_base == join(ROOT_MOUNT_DIRECTORY("af3"), P(FALSE, <<mount_point_name>>))
        source_path == IF is_dir THEN host_path ELSE dirname(host_path)
        target_path == target_base
        container_path ==
            IF is_dir THEN target_path ELSE join(target_path, basename(host_path))
    IN  IF creates_dir(mount_point_name)
        THEN IF makedirs_raises(f, source_path)
             THEN BindResult("raise", makedirs(f, source_path), source_path, target_path,
                             container_path, FALSE)
             ELSE BindResult("return", makedirs(f, source_path), source_path,
                             target_path, container_path, FALSE)
        ELSE BindResult("return", f, source_path, target_path, container_path, FALSE)

\* _create_bind of launcher l (only the Boltz script has the read_only parameter)
create_bind(l, f, mount_point_name, host_path, is_dir, read_only) ==
    CASE l = "boltz" -> boltz_create_bind(f, mount_point_name, host_path, is_dir, read_only)
      [] l = "chai"  -> chai_create_bind(f, mount_point_name, host_path, is_dir)
      [] l = "af3"   -> af3_create_bind(f, mount_point_name, host_path, is_dir)

----------------------------------------------------------------------------
(* Module-level configuration of the scripts *)

\* the environment variable that names the image
SifVar(l) ==
    CASE l = "boltz" -> "BOLTZ_SIF" [] l = "chai" -> "CHAI_SIF" [] l = "af3" -> "ALPHAFOLD3_SIF"

\* the hardcoded image path
HardcodedSif(l) ==
    CASE l = "boltz" -> P(TRUE, <<"path", "to", "your", "boltz.sif">>)
      [] l = "chai"  -> P(TRUE, <<"path", "to", "your", "chai_lab.sif">>)
      [] l = "af3"   -> P(TRUE, <<"path", "to", "your", "alphafold3.sif">>)

\* _BOLTZ_SIF_PATH, _CHAI_SIF_PATH, _ALPHAFOLD3_SIF_PATH
SIF_PATH(l, e) ==
    IF SifVar(l) \in DOMAIN e THEN e[SifVar(l)] ELSE HardcodedSif(l)

\* _BOLTZ_CACHE_DEFAULT
BOLTZ_CACHE_DEFAULT(e) ==
    IF "BOLTZ_CACHE" \in DOMAIN e THEN e["BOLTZ_CACHE"]
    ELSE expanduser(P(FALSE, <<"~", ".boltz">>))

\* tmp_dir_host (Boltz), tmp_dir (Chai Lab, AlphaFold3)
tmp_dir(e) ==
    IF "TMP" \in DOMAIN e THEN e["TMP"]
    ELSE IF "TMPDIR" \in DOMAIN e THEN e["TMPDIR"]
    ELSE P(TRUE, <<"tmp">>)

\* output_dir_default
output_dir_default(l) ==
    join(P(TRUE, Cwd),
         P(FALSE, << CASE l = "boltz" -> "boltz_output"
                       [] l = "chai"  -> "chailab_output"
                       [] l = "af3"   -> "alphafold3_output" >>))

\* a variant that lets the environment variable override the flag
sif_path_env_first(l, e, F) ==
    IF SifVar(l) \in DOMAIN e THEN e[SifVar(l)]
    ELSE IF l # "af3" /\ Truthy(F.sif_path) THEN F.sif_path[1] ELSE HardcodedSif(l)

\* sif_path of main (Boltz line 103, Chai Lab line 94); the AlphaFold3 script
\* defines no sif_path flag and uses _ALPHAFOLD3_SIF_PATH
sif_path(l, e, F) ==
    IF l = "af3" THEN SIF_PATH(l, e)
    ELSE IF Truthy(F.sif_path) THEN F.sif_path[1] ELSE SIF_PATH(l, e)

----------------------------------------------------------------------------
(* Flag-to-argument mapping *)

\* f'--name={value}' when cond, nothing otherwise
ArgIf(cond, name, value) == IF cond THEN << <<name, value>> >> ELSE <<>>

\* a literal argument when cond, nothing otherwise
LitIf(cond, text) == IF cond THEN << <<text>> >> ELSE <<>>

\* str(b).lower()
lower_str(b) == IF b THEN "true" ELSE "false"

\* abs(x)
Abs(x) == IF x < 0 THEN -x ELSE x

\* Floating-point flag values are counted in units of 1e-7:
\* 1.638 and 1e-6 of Boltz line 188
StepScaleDefault == 16380000

StepScaleTolerance == 10

\* The error of the double nearest to a decimal value (the double minus the
\* decimal), in units of 1e-23: of the tolerance 1e-6 and of 1.637999, 1.638 and
\* 1.638001, the step_scale values whose distance to the default is the tolerance
DoubleError(v) ==
    CASE v = StepScaleTolerance                    -> -5
      [] v = StepScaleDefault - StepScaleTolerance -> -1720935
      [] v = StepScaleDefault                      -> -9947598
      [] v = StepScaleDefault + StepScaleTolerance -> 4030198

\* abs(step_scale - 1.638) > 1e-6 in double arithmetic: the subtraction of two
\* doubles this close is exact, so the decimal values decide unless their
\* distance is the tolerance, where the rounding of the three literals decides
step_scale_differs(v) ==
    IF Abs(v - StepScaleDefault) # StepScaleTolerance
    THEN Abs(v - StepScaleDefault) > StepScaleTolerance
    ELSE IF v > StepScaleDefault
         THEN DoubleError(v) - DoubleError(StepScaleDefault) > DoubleError(StepScaleTolerance)
         ELSE DoubleError(StepScaleDefault) - DoubleError(v) > DoubleError(StepScaleTolerance)

\* a variant that compares step_scale with its default exactly
boltz_option_args_exact_float(F) ==
       << <<IF F.write_full_pae THEN "--write_full_pae" ELSE "--no-write-full-pae">>,
          <<IF F.write_full_pde THEN "--write_full_pde" ELSE "--no-write-full-pde">>,
          <<IF F.override THEN "--override" ELSE "--no-override">>,
          <<IF F.use_msa_server THEN "--use_msa_server" ELSE "--no-use-msa-server">>,
          <<IF F.enable_potentials THEN "--potentials" ELSE "--no_potentials">> >>
    \o ArgIf(F.devices # 1, "--devices", F.devices)
    \o ArgIf(F.accelerator # "gpu", "--accelerator", F.accelerator)
    \o ArgIf(F.recycling_steps # 3, "--recycling_steps", F.recycling_steps)
    \o ArgIf(F.sampling_steps # 200, "--sampling_steps", F.sampling_steps)
    \o ArgIf(F.diffusion_samples # 1, "--diffusion_samples", F.diffusion_samples)
    \o ArgIf(F.step_scale # StepScaleDefault,
             "--step_scale", F.step_scale)
    \o ArgIf(F.output_format # "mmcif", "--output_format", F.output_format)
    \o ArgIf(F.num_workers # 2, "--num_workers", F.num_workers)
    \o (IF F.seed # None THEN ArgIf(TRUE, "--seed", F.seed[1]) ELSE <<>>)
    \o (IF F.use_msa_server
        THEN    ArgIf(F.msa_server_url # "https://api.colabfold.com",
                      "--msa_server_url", F.msa_server_url)
             \o ArgIf(F.msa_pairing_strategy # "greedy",
                      "--msa_pairing_strategy", F.msa_pairing_strategy)
        ELSE <<>>)

\* a variant that emits --override when set and no token otherwise
boltz_option_args_no_off_token(F) ==
       << <<IF F.write_full_pae THEN "--write_full_pae" ELSE "--no-write-full-pae">>,
          <<IF F.write_full_pde THEN "--write_full_pde" ELSE "--no-write-full-pde">> >>
    \o LitIf(F.override, "--override")
    \o <<
          <<IF F.use_msa_server THEN "--use_msa_server" ELSE "--no-use-msa-server">>,
          <<IF F.enable_potentials THEN "--potentials" ELSE "--no_potentials">> >>
    \o ArgIf(F.devices # 1, "--devices", F.devices)
    \o ArgIf(F.accelerator # "gpu", "--accelerator", F.accelerator)
    \o ArgIf(F.recycling_steps # 3, "--recycling_steps", F.recycling_steps)
    \o ArgIf(F.sampling_steps # 200, "--sampling_steps", F.sampling_steps)
    \o ArgIf(F.diffusion_samples # 1, "--diffusion_samples", F.diffusion_samples)
    \o ArgIf(step_scale_differs(F.step_scale),
             "--step_scale", F.step_scale)
    \o ArgIf(F.output_format # "mmcif", "--output_format", F.output_format)
    \o ArgIf(F.num_workers # 2, "--num_workers", F.num_workers)
    \o (IF F.seed # None THEN ArgIf(TRUE, "--seed", F.seed[1]) ELSE <<>>)
    \o (IF F.use_msa_server
        THEN    ArgIf(F.msa_server_url # "https://api.colabfold.com",
                      "--msa_server_url", F.msa_server_url)
             \o ArgIf(F.msa_pairing_strategy # "greedy",
                      "--msa_pairing_strategy", F.msa_pairing_strategy)
        ELSE <<>>)

\* Boltz lines 172-201
boltz_option_args(F) ==
       << <<IF F.write_full_pae THEN "--write_full_pae" ELSE "--no-write-full-pae">>,
          <<IF F.write_full_pde THEN "--write_full_pde" ELSE "--no-write-full-pde">>,
          <<IF F.override THEN "--override" ELSE "--no-override">>,
          <<IF F.use_msa_server THEN "--use_msa_server" ELSE "--no-use-msa-server">>,
          <<IF F.enable_potentials THEN "--potentials" ELSE "--no_potentials">> >>
    \o ArgIf(F.devices # 1, "--devices", F.devices)
    \o ArgIf(F.accelerator # "gpu", "--accelerator", F.accelerator)
    \o ArgIf(F.recycling_steps # 3, "--recycling_steps", F.recycling_steps)
    \o ArgIf(F.sampling_steps # 200, "--sampling_steps", F.sampling_steps)
    \o ArgIf(F.diffusion_samples # 1, "--diffusion_samples", F.diffusion_samples)
    \o ArgIf(step_scale_differs(F.step_scale),
             "--step_scale", F.step_scale)
    \o ArgIf(F.output_format # "mmcif", "--output_format", F.output_format)
    \o ArgIf(F.num_workers # 2, "--num_workers", F.num_workers)
    \o (IF F.seed # None THEN ArgIf(TRUE, "--seed", F.seed[1]) ELSE <<>>)
    \o (IF F.use_msa_server
        THEN    ArgIf(F.msa_server_url # "https://api.colabfold.com",
                      "--msa_server_url", F.msa_server_url)
             \o ArgIf(F.msa_pairing_strategy # "greedy",
                      "--msa_pairing_strategy", F.msa_pairing_strategy)
        ELSE <<>>)

\* Chai Lab lines 170-196
chai_option_args(F) ==
       LitIf(F.use_esm_embeddings = FALSE, "--use-esm-embeddings=false")
    \o LitIf(F.use_msa_server, "--use-msa-server")
    \o LitIf(F.use_templates_server, "--use-templates-server")
    \o LitIf(F.low_memory = FALSE, "--low-memory=false")
    \o ArgIf(F.msa_server_url # "https://api.colabfold.com",
             "--msa-server-url", F.msa_server_url)
    \o ArgIf(F.recycle_msa_subsample # 0, "--recycle-msa-subsample", F.recycle_msa_subsample)
    \o ArgIf(F.num_trunk_recycles # 3, "--num-trunk-recycles", F.num_trunk_recycles)
    \o ArgIf(F.num_diffn_timesteps # 200, "--num-diffn-timesteps", F.num_diffn_timesteps)
    \o ArgIf(F.num_diffn_samples # 5, "--num-diffn-samples", F.num_diffn_samples)
    \o ArgIf(F.num_trunk_samples # 1, "--num-trunk-samples", F.num_trunk_samples)
    \o (IF F.seed # None THEN ArgIf(TRUE, "--seed", F.seed[1]) ELSE <<>>)
    \o (IF F.device # None /\ F.device[1] # ""
        THEN ArgIf(TRUE, "--device", F.device[1]) ELSE <<>>)

\* AlphaFold3 lines 249-268
af3_option_args(F) ==
       << <<"--run_data_pipeline", lower_str(F.run_data_pipeline)>>,
          <<"--run_inference", lower_str(F.run_inference)>>,
          <<"--conformer_max_iterations", F.conformer_max_iterations>>,
          <<"--jackhmmer_n_cpu", F.jackhmmer_n_cpu>>,
          <<"--nhmmer_n_cpu", F.nhmmer_n_cpu>>,
          <<"--max_template_date", F.max_template_date>>,
          <<"--num_recycles", F.num_recycles>>,
          <<"--num_diffusion_samples", F.num_diffusion_samples>>,
          <<"--flash_attention_implementation", F.flash_attention_implementation>>,
          <<"--save_embeddings", lower_str(F.save_embeddings)>>,
          <<"--force_output_dir", lower_str(F.force_output_dir)>>,
          <<"--logtostderr">> >>
    \o (IF F.num_seeds # None THEN ArgIf(TRUE, "--num_seeds", F.num_seeds[1]) ELSE <<>>)

option_args(l, F) ==
    CASE l = "boltz" -> boltz_option_args(F)
      [] l = "chai"  -> chai_option_args(F)
      [] l = "af3"   -> af3_option_args(F)

\* a variant of the Chai Lab command line with its two positional paths swapped
exec_command_swapped(l, cp) ==
    CASE l = "boltz" -> << <<"boltz">>, <<"predict">>, <<"", cp["input_data"]>> >>
      [] l = "chai"  -> << <<"chai-lab">>, <<"fold">>, <<"", cp["output"]>>,
                           <<"", cp["fasta"]>> >>
      [] l = "af3"   -> << <<"python">>, <<"/app/run_alphafold.py">> >>

\* the executable and the positional arguments
\* (Boltz line 168, Chai Lab line 168, AlphaFold3 lines 271-272)
exec_command(l, cp) ==
    CASE l = "boltz" -> << <<"boltz">>, <<"predict">>, <<"", cp["input_data"]>> >>
      [] l = "chai"  -> << <<"chai-lab">>, <<"fold">>, <<"", cp["fasta"]>>,
                           <<"", cp["output"]>> >>
      [] l = "af3"   -> << <<"python">>, <<"/app/run_alphafold.py">> >>

----------------------------------------------------------------------------
(* Flag definitions: the defaults of the DEFINE_* calls *)

\* multiprocessing.cpu_count() of the host
CpuCount == 4

Min(a, b) == IF a < b THEN a ELSE b

\* Boltz lines 256-301 (flags that are not paths)
boltz_flag_defaults ==
    [use_gpu |-> TRUE, gpu_devices |-> "all", devices |-> 1, accelerator |-> "gpu",
     recycling_steps |-> 3, sampling_steps |-> 200, diffusion_samples |-> 1,
     step_scale |-> 16380000, write_full_pae |-> FALSE, write_full_pde |-> FALSE,
     output_format |-> "mmcif", num_workers |-> 2, override |-> FALSE, seed |-> None,
     use_msa_server |-> FALSE, msa_server_url |-> "https://api.colabfold.com",
     msa_pairing_strategy |-> "greedy", enable_potentials |-> TRUE]

\* Chai Lab lines 258-298 (flags that are not paths)
chai_flag_defaults ==
    [use_gpu |-> TRUE, gpu_devices |-> "all", use_esm_embeddings |-> TRUE,
     use_msa_server |-> FALSE, msa_server_url |-> "https://api.colabfold.com",
     use_templates_server |-> FALSE, recycle_msa_subsample |-> 0,
     num_trunk_recycles |-> 3, num_diffn_timesteps |-> 200, num_diffn_samples |-> 5,
     num_trunk_samples |-> 1, seed |-> None, device |-> None, low_memory |-> TRUE]

\* AlphaFold3 lines 93-155 (flags that are not paths)
af3_flag_defaults ==
    [force_output_dir |-> FALSE, use_gpu |-> TRUE, gpu_devices |-> "all",
     run_data_pipeline |-> TRUE, run_inference |-> TRUE,
     jackhmmer_n_cpu |-> Min(CpuCount, 8), nhmmer_n_cpu |-> Min(CpuCount, 8),
     max_template_date |-> "2021-09-30", conformer_max_iterations |-> 10000,
     num_recycles |-> 10, num_diffusion_samples |-> 5, num_seeds |-> None,
     flash_attention_implementation |-> "triton", save_embeddings |-> FALSE]

flag_defaults(l) ==
    CASE l = "boltz" -> boltz_flag_defaults
      [] l = "chai"  -> chai_flag_defaults
      [] l = "af3"   -> af3_flag_defaults

\* the flags given on the command line laid over the defaults
WithFlags(defaults, given) ==
    [k \in DOMAIN defaults \cup DOMAIN given |->
        IF k \in DOMAIN given THEN given[k] ELSE defaults[k]]

----------------------------------------------------------------------------
(* Inputs of a run: command lines, environments and host filesystems *)

Launchers == {"boltz", "chai", "af3"}

\* host paths used on the command lines and in the environment
ImgSif    == P(TRUE, <<"img.sif">>)
AltSif    == P(TRUE, <<"alt.sif">>)
DataDir   == P(TRUE, <<"data">>)
DataFile  == P(TRUE, <<"data", "in.fasta">>)
RelFile   == P(FALSE, <<"..", "data", "in.fasta">>)
LostFile  == P(TRUE, <<"nodir", "in.fasta">>)
CkptFile  == P(TRUE, <<"data", "ck.pt">>)
OutDir    == P(TRUE, <<"out">>)
ModelDir  == P(TRUE, <<"models">>)
DbDir0    == P(TRUE, <<"db0">>)
DbDir1    == P(TRUE, <<"db1">>)
Scratch   == P(TRUE, <<"scratch">>)

\* f'run_{timestamp}' of Chai Lab lines 131-132: the name the clock gives to
\* the run, to the second
RunSubdir == P(FALSE, <<"run_<timestamp>">>)

\* the directory of that name under /out, which a run of the same second has
\* left on some hosts, empty or with a result in it
RunDir == OutDir.parts \o RunSubdir.parts

\* directories and files every host filesystem of the model has
BaseDirs == {<<>>, Cwd, Home, <<"root">>, <<"tmp">>}

BaseFiles == {ImgSif.parts}

\* a filesystem is well formed when the parent of every entry is a directory
FsOK(f) ==
    /\ f.dirs \cap f.files = {}
    /\ \A e \in f.dirs \cup f.files :
          e # <<>> => SubSeq(e, 1, Len(e) - 1) \in f.dirs

\* entries a host filesystem may or may not have, per launcher
OptionalDirs(l) ==
    {DataDir.parts, OutDir.parts}
    \cup (IF l = "af3"
          THEN {ModelDir.parts, DbDir0.parts, output_dir_default(l).parts}
          ELSE {})
    \cup (IF l = "chai" THEN {RunDir} ELSE {})

OptionalFiles(l) ==
    {DataFile.parts}
    \cup (IF l = "boltz" THEN {CkptFile.parts} ELSE {})
    \cup (IF l = "af3" THEN {output_dir_default(l).parts \o <<"old">>}
          ELSE {<<"out", "old">>})
    \cup (IF l = "chai" THEN {Append(RunDir, "old")} ELSE {})

HostFilesystems(l) ==
    {f \in [dirs  : {BaseDirs \cup d : d \in SUBSET OptionalDirs(l)},
            files : {BaseFiles \cup x : x \in SUBSET OptionalFiles(l)}] : FsOK(f)}

\* environments: the image variable, TMP, TMPDIR (and BOLTZ_CACHE for Boltz)
EnvValue(name) ==
    CASE name = "TMP" -> Scratch
      [] name = "TMPDIR" -> P(TRUE, <<"tmp", "job">>)
      [] name = "BOLTZ_CACHE" -> P(TRUE, <<"cache">>)
      [] OTHER -> ImgSif

EnvDomains(l) ==
    {{}, {SifVar(l), "TMPDIR"},
     {SifVar(l), "TMP", "TMPDIR"} \cup (IF l = "boltz" THEN {"BOLTZ_CACHE"} ELSE {})}

\* the last one sets the image variable to the empty string
Environments(l) ==
    {[n \in d |-> EnvValue(n)] : d \in EnvDomains(l)}
    \cup {[n \in {SifVar(l)} |-> EmptyStr]}

\* non-path flags of a full run: the defaults, and one customised command line
CustomFlags(l) ==
    CASE l = "boltz" ->
           [gpu_devices |-> "0,1", devices |-> 2, step_scale |-> 20000000,
            override |-> TRUE, seed |-> Some(7), use_msa_server |-> TRUE,
            msa_server_url |-> "https://msa.example.org"]
      [] l = "chai"  ->
           [gpu_devices |-> "0,1", use_esm_embeddings |-> FALSE,
            msa_server_url |-> "https://msa.example.org", num_diffn_samples |-> 6,
            device |-> Some("cuda:0")]
      [] l = "af3"   ->
           [gpu_devices |-> "0,1", run_inference |-> FALSE, num_recycles |-> 11,
            num_seeds |-> Some(2)]

RunOptionFlags(l) ==
    {flag_defaults(l), WithFlags(flag_defaults(l), CustomFlags(l))}

\* bound on the number of --db_dir values of a command line
MaxDbDirs == 2

DbPool == <<DbDir0, DbDir1, DbDir0, DbDir1>>

DbDirLists == {None} \cup {Some(SubSeq(DbPool, 1, n)) : n \in 0..MaxDbDirs}

\* path flags of a full run
RunPathFlags(l, e) ==
    CASE l = "boltz" ->
           [sif_path        : {None, Some(EmptyStr), Some(ImgSif), Some(AltSif)},
            input_data      : {None, Some(EmptyStr), Some(DataFile), Some(RelFile),
                               Some(DataDir), Some(LostFile),
                               Some(P(TRUE, <<"nodir", "..", "data">>))},
            out_dir         : {output_dir_default(l), OutDir, DataFile,
                               P(TRUE, <<"nodir", "..", "out">>)},
            boltz_cache_dir : {BOLTZ_CACHE_DEFAULT(e)},
            checkpoint      : {None, Some(CkptFile), Some(DataDir)}]
      [] l = "chai" ->
           {pf \in [sif_path           : {None, Some(EmptyStr), Some(ImgSif), Some(AltSif)},
                    fasta_file         : {None, Some(DataFile), Some(LostFile)},
                    output_dir         : {output_dir_default(l), OutDir, EmptyStr},
                    force_output_dir   : BOOLEAN,
                    msa_directory      : {None, Some(DataDir)},
                    constraint_path    : {None, Some(LostFile)},
                    template_hits_path : {None, Some(DataFile)}] :
                (pf.constraint_path # None \/ pf.template_hits_path # None)
                    => pf.msa_directory # None}
      [] l = "af3" ->
           [json_path  : {None, Some(DataFile)},
            input_dir  : {None, Some(DataDir)},
            output_dir : {output_dir_default(l), OutDir},
            model_dir  : {None, Some(ModelDir)},
            db_dir     : DbDirLists]

----------------------------------------------------------------------------
(* The run of a launcher *)

NoPaths == [n \in {} |-> EmptyStr]

\* the state every run starts from, given its inputs
Start(l, e, F, f) ==
    /\ launcher = l
    /\ env = e
    /\ flags = F
    /\ fs = f
    /\ fs0 = f
    /\ pc = IF l = "af3" THEN "image" ELSE "parse"
    /\ binds = <<>>
    /\ args = <<>>
    /\ cpaths = NoPaths
    /\ command = <<>>
    /\ options = <<>>
    /\ sif = None
    /\ exit_code = None
    /\ log = <<>>
    /\ bind_calls = <<>>
    /\ invocations = 0
    /\ cstate = "none"
    /\ produced = <<>>
    /\ printed = <<>>

\* the script, as argv[0]
Script(l) ==
    CASE l = "boltz" -> "run_boltz_launcher.py"
      [] l = "chai"  -> "run_chailab_launcher.py"
      [] l = "af3"   -> "run_alphafold3_launcher.py"

\* command lines without and with one positional argument
ArgvSpace(l) == {<<Script(l)>>, <<Script(l), "extra">>}

Init ==
    \E l \in Launchers :
      \E e \in Environments(l), f \in HostFilesystems(l), o \in RunOptionFlags(l) :
        \E pf \in RunPathFlags(l, e), a \in ArgvSpace(l) :
          Start(l, e, WithFlags(o, pf), f) /\ argv = a

\* the process ends with exit code `code` after logging `entry`
Exit(code, entry) ==
    /\ pc' = "done"
    /\ exit_code' = Some(code)
    /\ log' = Append(log, entry)

\* flags marked as required (Boltz line 304, Chai Lab line 301, AlphaFold3 lines 317-321)
RequiredFlags(l) ==
    CASE l = "boltz" -> {"input_data"}
      [] l = "chai"  -> {"fasta_file"}
      [] l = "af3"   -> {"model_dir", "db_dir"}

\* app.run parses the command line; a required flag left at None ends the process
ParseFlags ==
    /\ pc = "parse"
    /\ IF \E n \in RequiredFlags(launcher) : flags[n] = None
       THEN Exit(1, <<"flags_error">>)
       ELSE /\ pc' = "main"
            /\ UNCHANGED <<exit_code, log>>
    /\ UNCHANGED <<launcher, env, argv, flags, fs, fs0, binds, args, cpaths, command,
                   options, sif, bind_calls, invocations, cstate, produced, printed>>

\* the first statement of main (Boltz lines 100-101, Chai Lab lines 90-91,
\* AlphaFold3 lines 197-198): a positional argument raises app.UsageError
CheckArgv ==
    /\ pc = "main"
    /\ IF Len(argv) > 1
       THEN Exit(1, <<"usage_error">>)
       ELSE /\ pc' = IF launcher = "af3" THEN "validate" ELSE "image"
            /\ UNCHANGED <<exit_code, log>>
    /\ UNCHANGED <<launcher, env, argv, flags, fs, fs0, binds, args, cpaths, command,
                   options, sif, bind_calls, invocations, cstate, produced, printed>>

\* a variant that reports a missing image and goes on
CheckImageNoExit ==
    /\ pc = "image"
    /\ sif' = Some(sif_path(launcher, env, flags))
    /\ pc' = "load"
    /\ log' = IF ~exists(fs, sif_path(launcher, env, flags))
              THEN Append(log, <<"image_not_found", sif_path(launcher, env, flags)>>)
              ELSE log
    /\ UNCHANGED <<launcher, env, argv, flags, fs, fs0, binds, args, cpaths, command,
                   options, exit_code, bind_calls, invocations, cstate, produced,
                   printed>>

\* Boltz lines 103-107, Chai Lab lines 94-98, AlphaFold3 lines 43-53
CheckImage ==
    /\ pc = "image"
    /\ sif' = Some(sif_path(launcher, env, flags))
    /\ IF ~exists(fs, sif_path(launcher, env, flags))
       THEN Exit(1, <<"image_not_found", sif_path(launcher, env, flags)>>)
       ELSE /\ pc' = "load"
            /\ UNCHANGED <<exit_code, log>>
    /\ UNCHANGED <<launcher, env, argv, flags, fs, fs0, binds, args, cpaths, command,
                   options, bind_calls, invocations, cstate, produced, printed>>

\* Boltz lines 109-113, Chai Lab lines 100-104, AlphaFold3 lines 55-59:
\* Client.load either returns the image or raises
LoadImage ==
    /\ pc = "load"
    /\ \E loads \in BOOLEAN :
         IF ~loads
         THEN Exit(1, <<"image_load_error", sif[1]>>)
         ELSE /\ pc' = IF launcher = "af3" THEN "parse" ELSE "validate"
              /\ UNCHANGED <<exit_code, log>>
    /\ UNCHANGED <<launcher, env, argv, flags, fs, fs0, binds, args, cpaths, command,
                   options, sif, bind_calls, invocations, cstate, produced, printed>>

\* the argument validation of main: whether it raises app.UsageError
\* (Boltz lines 121-122, Chai Lab lines 112-115, AlphaFold3 lines 200-207)
UsageError(l, F) ==
    CASE l = "boltz" -> ~Truthy(F.input_data)
      [] l = "chai"  -> ~Truthy(F.fasta_file) \/ ~StrTruthy(F.output_dir)
      [] l = "af3"   -> \/ (~Truthy(F.json_path) /\ ~Truthy(F.input_dir))
                        \/ ~Truthy(F.model_dir)
                        \/ F.db_dir = None \/ F.db_dir[1] = <<>>

FirstBind(l) ==
    CASE l = "boltz" -> "boltz_input" [] l = "chai" -> "chai_fasta" [] l = "af3" -> "af3_input"

ValidateArgs ==
    /\ pc = "validate"
    /\ IF UsageError(launcher, flags)
       THEN Exit(1, <<"usage_error">>)
       ELSE /\ pc' = FirstBind(launcher)
            /\ UNCHANGED <<exit_code, log>>
    /\ UNCHANGED <<launcher, env, argv, flags, fs, fs0, binds, args, cpaths, command,
                   options, sif, bind_calls, invocations, cstate, produced, printed>>

\* One bind step of main on filesystem f: the call of _create_bind, then
\* binds.append(bind_spec) and, for a mount whose path is a flag of the tool,
\* the append of f'{arg}={container path}'.  sys.exit(1) in _create_bind and an
\* exception out of os.makedirs both end the process with exit code 1.
BindStep(f, name, host_path, is_dir, read_only, arg, next) ==
    \E r \in {create_bind(launcher, f, name, host_path, is_dir, read_only)} :
    /\ bind_calls' = Append(bind_calls,
                            [name |-> name, host_path |-> host_path, is_dir |-> is_dir,
                             read_only |-> read_only,
                             host_exists |-> exists(f, IF launcher = "boltz"
                                                       THEN expanduser(host_path)
                                                       ELSE host_path),
                             outcome |-> r.outcome,
                             bind_spec |-> r.bind_spec,
                             container_path |-> r.container_path])
    /\ fs' = r.fs
    /\ IF r.outcome = "return"
       THEN /\ binds' = Append(binds, r.bind_spec)
            /\ cpaths' = (name :> r.container_path) @@ cpaths
            /\ args' = args \o ArgIf(arg # "", arg, r.container_path)
            /\ pc' = next
            /\ UNCHANGED <<exit_code, log>>
       ELSE /\ Exit(1, IF r.outcome = "exit"
                       THEN <<"bind_path_missing", r.source_path, name>>
                       ELSE <<"traceback", "makedirs">>)
            /\ UNCHANGED <<binds, cpaths, args>>
    /\ UNCHANGED <<launcher, env, argv, flags, fs0, command, options, sif, invocations,
                   cstate, produced, printed>>

\* an exception that main does not catch ends the process with exit code 1;
\* f is the host filesystem the raising call left
Uncaught(what, f) ==
    /\ Exit(1, <<"traceback", what>>)
    /\ fs' = f
    /\ UNCHANGED <<launcher, env, argv, flags, fs0, binds, args, cpaths, command,
                   options, sif, bind_calls, invocations, cstate, produced, printed>>

\* Boltz lines 130-134
BoltzBindInput ==
    /\ pc = "boltz_input"
    /\ BindStep(fs, "input_data", flags.input_data[1],
                isdir(fs, flags.input_data[1]), TRUE, "", "boltz_output")

\* Boltz lines 138-144
BoltzBindOutput ==
    /\ pc = "boltz_output"
    /\ \E made \in {makedirs(fs, flags.out_dir)} :
         IF makedirs_raises(fs, flags.out_dir)
         THEN Uncaught("makedirs", made)
         ELSE BindStep(made, "output", flags.out_dir, TRUE, FALSE, "--out_dir",
                       "boltz_cache")

\* Boltz lines 147-151
BoltzBindCache ==
    /\ pc = "boltz_cache"
    /\ \E made \in {makedirs(fs, flags.boltz_cache_dir)} :
         IF makedirs_raises(fs, flags.boltz_cache_dir)
         THEN Uncaught("makedirs", made)
         ELSE BindStep(made, "boltz_cache", flags.boltz_cache_dir, TRUE, FALSE,
                       "--cache", "boltz_checkpoint")

\* a variant that binds the checkpoint without read_only
BoltzBindCheckpointWritable ==
    /\ pc = "boltz_checkpoint"
    /\ IF ~Truthy(flags.checkpoint)
       THEN /\ pc' = "bind_tmp"
            /\ UNCHANGED <<launcher, env, argv, flags, fs, fs0, binds, args, cpaths, command,
                           options, sif, exit_code, log, bind_calls, invocations,
                           cstate, produced, printed>>
       ELSE IF ~isfile(fs, flags.checkpoint[1])
            THEN /\ Exit(1, <<"checkpoint_not_found", flags.checkpoint[1]>>)
                 /\ UNCHANGED <<launcher, env, argv, flags, fs, fs0, binds, args, cpaths,
                                command, options, sif, bind_calls, invocations,
                                cstate, produced, printed>>
            ELSE BindStep(fs, "checkpoint_file", flags.checkpoint[1], FALSE, FALSE,
                          "--checkpoint", "bind_tmp")

\* Boltz lines 154-160
BoltzBindCheckpoint ==
    /\ pc = "boltz_checkpoint"
    /\ IF ~Truthy(flags.checkpoint)
       THEN /\ pc' = "bind_tmp"
            /\ UNCHANGED <<launcher, env, argv, flags, fs, fs0, binds, args, cpaths, command,
                           options, sif, exit_code, log, bind_calls, invocations,
                           cstate, produced, printed>>
       ELSE IF ~isfile(fs, flags.checkpoint[1])
            THEN /\ Exit(1, <<"checkpoint_not_found", flags.checkpoint[1]>>)
                 /\ UNCHANGED <<launcher, env, argv, flags, fs, fs0, binds, args, cpaths,
                                command, options, sif, bind_calls, invocations,
                                cstate, produced, printed>>
            ELSE BindStep(fs, "checkpoint_file", flags.checkpoint[1], FALSE, TRUE,
                          "--checkpoint", "bind_tmp")

\* Chai Lab lines 123-124
ChaiBindFasta ==
    /\ pc = "chai_fasta"
    /\ BindStep(fs, "fasta", flags.fasta_file[1], FALSE, FALSE, "", "chai_output")

\* actual_output_dir of Chai Lab lines 129-132
chai_actual_output_dir(f, F) ==
    IF exists(f, F.output_dir) /\ listdir_nonempty(f, F.output_dir) /\ ~F.force_output_dir
    THEN join(F.output_dir, RunSubdir)
    ELSE F.output_dir

\* Chai Lab lines 129-140; os.listdir raises on a path that is a regular file
ChaiBindOutput ==
    /\ pc = "chai_output"
    /\ IF isfile(fs, flags.output_dir)
       THEN Uncaught("listdir", fs)
       ELSE \E made \in {makedirs(fs, chai_actual_output_dir(fs, flags))} :
              IF makedirs_raises(fs, chai_actual_output_dir(fs, flags))
              THEN Uncaught("makedirs", made)
              ELSE BindStep(made, "output", chai_actual_output_dir(fs, flags),
                            TRUE, FALSE, "", "chai_msa")

\* an optional bind of the Chai Lab script
ChaiOptionalBind(flag, name, is_dir, arg, next) ==
    IF ~Truthy(flag)
    THEN /\ pc' = next
         /\ UNCHANGED <<launcher, env, argv, flags, fs, fs0, binds, args, cpaths, command,
                        options, sif, exit_code, log, bind_calls, invocations,
                        cstate, produced, printed>>
    ELSE BindStep(fs, name, flag[1], is_dir, FALSE, arg, next)

\* Chai Lab lines 145-148
ChaiBindMsa ==
    /\ pc = "chai_msa"
    /\ ChaiOptionalBind(flags.msa_directory, "msa_dir", TRUE, "--msa-directory",
                        "chai_constraints")

\* Chai Lab lines 150-153
ChaiBindConstraint ==
    /\ pc = "chai_constraints"
    /\ ChaiOptionalBind(flags.constraint_path, "constraints", FALSE,
                        "--constraint-path", "chai_template")

\* Chai Lab lines 155-158
ChaiBindTemplate ==
    /\ pc = "chai_template"
    /\ ChaiOptionalBind(flags.template_hits_path, "template_hits", FALSE,
                        "--template-hits-path", "bind_tmp")

\* a variant that prefers --json_path when both input flags are set
Af3BindInputJsonFirst ==
    /\ pc = "af3_input"
    /\ IF Truthy(flags.json_path)
       THEN BindStep(fs, "json_input", flags.json_path[1], FALSE, FALSE,
                     "--json_path", "af3_output")
       ELSE BindStep(fs, "input_dir", flags.input_dir[1], TRUE, FALSE,
                     "--input_dir", "af3_output")

\* AlphaFold3 lines 214-223
Af3BindInput ==
    /\ pc = "af3_input"
    /\ IF Truthy(flags.input_dir)
       THEN BindStep(fs, "input_dir", flags.input_dir[1], TRUE, FALSE,
                     "--input_dir", "af3_output")
       ELSE BindStep(fs, "json_input", flags.json_path[1], FALSE, FALSE,
                     "--json_path", "af3_output")

\* AlphaFold3 lines 226-228
Af3BindOutput ==
    /\ pc = "af3_output"
    /\ BindStep(fs, "output", flags.output_dir, TRUE, FALSE, "--output_dir", "af3_models")

\* AlphaFold3 lines 231-233
Af3BindModels ==
    /\ pc = "af3_models"
    /\ BindStep(fs, "models", flags.model_dir[1], TRUE, FALSE, "--model_dir", "af3_db")

\* the loop index i of AlphaFold3 line 237: the db_<i> binds made so far
DbBound ==
    Cardinality({i \in DOMAIN bind_calls : bind_calls[i].name \in {DbName(k) : k \in 0..3}})

\* AlphaFold3 lines 236-241: one iteration of the loop, or its end
Af3BindDb ==
    /\ pc = "af3_db"
    /\ IF DbBound < Len(flags.db_dir[1])
       THEN BindStep(fs, DbName(DbBound), flags.db_dir[1][DbBound + 1], TRUE, FALSE,
                     "--db_dir", "af3_db")
       ELSE /\ pc' = "bind_tmp"
            /\ UNCHANGED <<launcher, env, argv, flags, fs, fs0, binds, args, cpaths, command,
                           options, sif, exit_code, log, bind_calls, invocations,
                           cstate, produced, printed>>

\* Boltz lines 163-164, Chai Lab lines 161-162, AlphaFold3 lines 244-245
BindTmp ==
    /\ pc = "bind_tmp"
    /\ BindStep(fs, "tmp", tmp_dir(env), TRUE, FALSE, "", "assemble")

\* Boltz lines 168-203, Chai Lab lines 168-198, AlphaFold3 lines 249-272
full_command(l, cp, a, F) ==
    IF l = "af3"
    THEN exec_command(l, cp) \o (a \o option_args(l, F))
    ELSE exec_command(l, cp) \o (a \o option_args(l, F))

AssembleCommand ==
    /\ pc = "assemble"
    /\ args' = args \o option_args(launcher, flags)
    /\ command' = full_command(launcher, cpaths, args, flags)
    /\ pc' = "options"
    /\ UNCHANGED <<launcher, env, argv, flags, fs, fs0, binds, cpaths, options, sif,
                   exit_code, log, bind_calls, invocations, cstate, produced, printed>>

\* a variant of the join that leaves out the last bind spec
comma_join_no_last(bs) ==
    IF Len(bs) <= 1 THEN <<>>
    ELSE <<bs[1]>> \o [i \in 1..(2 * (Len(bs) - 2)) |->
                          IF i % 2 = 1 THEN "," ELSE bs[(i \div 2) + 1]]

\* ",".join(binds): the bind specs in order, a comma between neighbours
comma_join(bs) ==
    IF bs = <<>> THEN <<>>
    ELSE <<bs[1]>> \o [i \in 1..(2 * (Len(bs) - 1)) |->
                          IF i % 2 = 1 THEN "," ELSE bs[(i \div 2) + 1]]

\* Boltz lines 206-213, Chai Lab lines 201-209, AlphaFold3 lines 275-281
singularity_options(l, bs, cp, F) ==
       << <<"--bind", comma_join(bs)>>,
          <<"--env", "NVIDIA_VISIBLE_DEVICES", F.gpu_devices>> >>
    \o (IF l = "boltz" THEN << <<"--env", "BOLTZ_CACHE", cp["boltz_cache"]>> >> ELSE <<>>)
    \o (IF l \in {"boltz", "chai"} THEN << <<"--env", "TMPDIR", cp["tmp"]>> >> ELSE <<>>)

BuildOptions ==
    /\ pc = "options"
    /\ options' = singularity_options(launcher, binds, cpaths, flags)
    /\ pc' = "execute"
    /\ UNCHANGED <<launcher, env, argv, flags, fs, fs0, binds, args, cpaths, command, sif,
                   exit_code, log, bind_calls, invocations, cstate, produced, printed>>

\* a variant that launches the container again when the launch raises
ExecuteRetry ==
    /\ pc = "execute"
    /\ invocations' = invocations + 1
    /\ \E starts \in BOOLEAN :
         IF starts
         THEN pc' = "stream" /\ cstate' = "running"
         ELSE pc' = "execute" /\ cstate' = "failed"
    /\ UNCHANGED <<launcher, env, argv, flags, fs, fs0, binds, args, cpaths, command,
                   options, sif, exit_code, log, bind_calls, produced, printed>>

\* Client.execute(..., stream=True) of Boltz lines 222-228, Chai Lab lines 219-225,
\* AlphaFold3 lines 292-298: the container starts, or the launch raises
Execute ==
    /\ pc = "execute"
    /\ invocations' = invocations + 1
    /\ \E starts \in BOOLEAN :
         IF starts
         THEN pc' = "stream" /\ cstate' = "running"
         ELSE pc' = "except" /\ cstate' = "failed"
    /\ UNCHANGED <<launcher, env, argv, flags, fs, fs0, binds, args, cpaths, command,
                   options, sif, exit_code, log, bind_calls, produced, printed>>

\* bound on the number of lines the container writes
MaxLines == 2

\* the container process writes a line to its output stream
ContainerWrite ==
    /\ cstate = "running"
    /\ Len(produced) < MaxLines
    /\ produced' = Append(produced, Len(produced) + 1)
    /\ UNCHANGED <<launcher, env, argv, flags, fs, fs0, pc, binds, args, cpaths, command,
                   options, sif, exit_code, log, bind_calls, invocations, cstate,
                   printed>>

\* the host directory of the bind named "output", which every launcher makes
\* before it invokes the container
OutputHostDir ==
    bind_calls[CHOOSE i \in DOMAIN bind_calls :
                   bind_calls[i].name = "output"].bind_spec[1].parts

\* the file that stands for what the wrapped tool leaves in its output directory
ContainerFile == "pred.cif"

\* the container process writes a file into its output directory, which is the
\* host directory of the output bind
ContainerSave ==
    /\ cstate = "running"
    /\ Append(OutputHostDir, ContainerFile) \notin fs.files
    /\ fs' = [fs EXCEPT !.files = @ \cup {Append(OutputHostDir, ContainerFile)}]
    /\ UNCHANGED <<launcher, env, argv, flags, fs0, pc, binds, args, cpaths, command,
                   options, sif, exit_code, log, bind_calls, invocations, cstate,
                   produced, printed>>

\* the container process ends: with status 0 the stream just ends, with another
\* status the stream raises once it is drained
ContainerEnd ==
    /\ cstate = "running"
    /\ \E status_ok \in BOOLEAN : cstate' = IF status_ok THEN "closed" ELSE "failed"
    /\ UNCHANGED <<launcher, env, argv, flags, fs, fs0, pc, binds, args, cpaths, command,
                   options, sif, exit_code, log, bind_calls, invocations, produced,
                   printed>>

\* a variant of the reading loop that prints the newest line of the stream
PrintLineNewest ==
    /\ pc = "stream"
    /\ Len(printed) < Len(produced)
    /\ printed' = Append(printed, produced[Len(produced)])
    /\ UNCHANGED <<launcher, env, argv, flags, fs, fs0, pc, binds, args, cpaths, command,
                   options, sif, exit_code, log, bind_calls, invocations, cstate,
                   produced>>

\* one iteration of `for line in result: print(line, end='')`
PrintLine ==
    /\ pc = "stream"
    /\ Len(printed) < Len(produced)
    /\ printed' = Append(printed, produced[Len(printed) + 1])
    /\ UNCHANGED <<launcher, env, argv, flags, fs, fs0, pc, binds, args, cpaths, command,
                   options, sif, exit_code, log, bind_calls, invocations, cstate,
                   produced>>

\* a variant that ends the loop normally whatever the status of the container
StreamEndIgnoresStatus ==
    /\ pc = "stream"
    /\ Len(printed) = Len(produced)
    /\ cstate \in {"closed", "failed"}
    /\ Exit(0, <<"prediction_finished">>)
    /\ UNCHANGED <<launcher, env, argv, flags, fs, fs0, binds, args, cpaths, command,
                   options, sif, bind_calls, invocations, cstate, produced, printed>>

\* a variant with a timeout: the loop gives up on a container that is running
StreamEndTimeout ==
    /\ pc = "stream"
    /\ Len(printed) = Len(produced)
    /\ IF cstate = "closed"
       THEN Exit(0, <<"prediction_finished">>)
       ELSE pc' = "except" /\ UNCHANGED <<exit_code, log>>
    /\ UNCHANGED <<launcher, env, argv, flags, fs, fs0, binds, args, cpaths, command,
                   options, sif, bind_calls, invocations, cstate, produced, printed>>

\* the stream is drained and the container is gone: the loop ends and main logs
\* '... prediction finished.' and returns (exit code 0), or the stream raises
StreamEnd ==
    /\ pc = "stream"
    /\ Len(printed) = Len(produced)
    /\ cstate \in {"closed", "failed"}
    /\ IF cstate = "closed"
       THEN Exit(0, <<"prediction_finished">>)
       ELSE pc' = "except" /\ UNCHANGED <<exit_code, log>>
    /\ UNCHANGED <<launcher, env, argv, flags, fs, fs0, binds, args, cpaths, command,
                   options, sif, bind_calls, invocations, cstate, produced, printed>>

\* a variant that removes the default output directory whatever it holds
af3_cleanup_nonempty(f, F) ==
    IF /\ F.output_dir = output_dir_default("af3")
       /\ exists(f, output_dir_default("af3"))
    THEN [f EXCEPT !.dirs = @ \ {AbsParts(output_dir_default("af3"))}]
    ELSE f

\* os.rmdir(output_dir_default) of AlphaFold3 lines 305-310, when its test holds
af3_cleanup(f, F) ==
    IF /\ F.output_dir = output_dir_default("af3")
       /\ exists(f, output_dir_default("af3"))
       /\ isdir(f, output_dir_default("af3"))
       /\ ~listdir_nonempty(f, output_dir_default("af3"))
    THEN [f EXCEPT !.dirs = @ \ {AbsParts(output_dir_default("af3"))}]
    ELSE f

\* the except clause: Boltz lines 231-233, Chai Lab lines 229-234,
\* AlphaFold3 lines 302-311
HandleException ==
    /\ pc = "except"
    /\ fs' = IF launcher = "af3" THEN af3_cleanup(fs, flags) ELSE fs
    /\ Exit(1, <<"error_executing">>)
    /\ UNCHANGED <<launcher, env, argv, flags, fs0, binds, args, cpaths, command, options,
                   sif, bind_calls, invocations, cstate, produced, printed>>

Next ==
    \/ ParseFlags
    \/ CheckArgv
    \/ CheckImage
    \/ LoadImage
    \/ ValidateArgs
    \/ BoltzBindInput
    \/ BoltzBindOutput
    \/ BoltzBindCache
    \/ BoltzBindCheckpoint
    \/ ChaiBindFasta
    \/ ChaiBindOutput
    \/ ChaiBindMsa
    \/ ChaiBindConstraint
    \/ ChaiBindTemplate
    \/ Af3BindInput
    \/ Af3BindOutput
    \/ Af3BindModels
    \/ Af3BindDb
    \/ BindTmp
    \/ AssembleCommand
    \/ BuildOptions
    \/ Execute
    \/ ContainerWrite
    \/ ContainerSave
    \/ ContainerEnd
    \/ PrintLine
    \/ StreamEnd
    \/ HandleException

Spec == Init /\ [][Next]_vars

----------------------------------------------------------------------------
(* _create_bind on its own: every launcher, mount point name, host path and  *)
(* host filesystem of the sets below.  `flags` holds the arguments of the    *)
(* call.                                                                     *)

BindNames ==
    {"input_data", "output", "output_extra", "boltz_cache", "checkpoint_file",
     "tmp", "tmp_extra", "fasta", "models", "db_0"}

\* host paths that name a directory or a file: absolute, relative to the
\* working directory, with "." and ".." components, under the home directory
BindHostPaths ==
    {DataDir, DataFile, RelFile, LostFile, OutDir, P(FALSE, <<"out">>),
     P(FALSE, <<".", "new", "deep">>), P(FALSE, <<"~", "cache">>),
     P(TRUE, <<"data", "in.fasta", "sub">>), P(TRUE, <<"data", "..", "out">>),
     P(FALSE, <<"~root", "x">>), P(FALSE, <<"~nosuchuser", "x">>),
     P(TRUE, <<"nodir", "..", "data">>), EmptyStr}

BindArguments(l) ==
    [name : BindNames, host_path : BindHostPaths, is_dir : BOOLEAN,
     read_only : IF l = "boltz" THEN BOOLEAN ELSE {FALSE}]

InitBind ==
    \E l \in Launchers :
      \E a \in BindArguments(l), f \in HostFilesystems("chai") :
        /\ Start(l, [n \in {} |-> EmptyStr], a, f)
        /\ argv = <<Script(l)>>

CallCreateBind ==
    /\ pc \in {"parse", "image"}
    /\ BindStep(fs, flags.name, flags.host_path, flags.is_dir, flags.read_only,
                "", "returned")

\* the same call once more, on the host filesystem the first call left
CallCreateBindAgain ==
    /\ pc = "returned"
    /\ BindStep(fs, flags.name, flags.host_path, flags.is_dir, flags.read_only,
                "", "returned_twice")

NextBind == CallCreateBind \/ CallCreateBindAgain

SpecBind == InitBind /\ [][NextBind]_vars

----------------------------------------------------------------------------
(* The flag-to-argument mapping on its own: every launcher and every        *)
(* combination of the flag values below.                                    *)

Ints(d) == {d, d + 1}

OptionSpace(l) ==
    CASE l = "boltz" ->
           [use_gpu : {TRUE}, gpu_devices : {"all"}, devices : Ints(1),
            accelerator : {"gpu", "cpu"}, recycling_steps : Ints(3),
            sampling_steps : Ints(200), diffusion_samples : Ints(1),
            step_scale : {StepScaleDefault, StepScaleDefault + 5,
                          StepScaleDefault - StepScaleTolerance,
                          StepScaleDefault + StepScaleTolerance,
                          StepScaleDefault + 2 * StepScaleTolerance},
            write_full_pae : BOOLEAN, write_full_pde : BOOLEAN,
            output_format : {"mmcif", "pdb"}, num_workers : Ints(2),
            override : BOOLEAN, seed : {None, Some(7)}, use_msa_server : BOOLEAN,
            msa_server_url : {"https://api.colabfold.com", "https://msa.example.org"},
            msa_pairing_strategy : {"greedy", "complete"},
            enable_potentials : BOOLEAN]
      [] l = "chai" ->
           [use_gpu : {TRUE}, gpu_devices : {"all"}, use_esm_embeddings : BOOLEAN,
            use_msa_server : BOOLEAN,
            msa_server_url : {"https://api.colabfold.com", "https://msa.example.org"},
            use_templates_server : BOOLEAN, recycle_msa_subsample : Ints(0),
            num_trunk_recycles : Ints(3), num_diffn_timesteps : Ints(200),
            num_diffn_samples : Ints(5), num_trunk_samples : Ints(1),
            seed : {None, Some(7)}, device : {None, Some(""), Some("cuda:0")},
            low_memory : BOOLEAN]
      [] l = "af3" ->
           [force_output_dir : BOOLEAN, use_gpu : {TRUE}, gpu_devices : {"all"},
            run_data_pipeline : BOOLEAN, run_inference : BOOLEAN,
            jackhmmer_n_cpu : Ints(Min(CpuCount, 8)), nhmmer_n_cpu : Ints(Min(CpuCount, 8)),
            max_template_date : {"2021-09-30", "2023-01-01"},
            conformer_max_iterations : Ints(10000), num_recycles : Ints(10),
            num_diffusion_samples : Ints(5), num_seeds : {None, Some(2)},
            flash_attention_implementation : {"triton", "xla"},
            save_embeddings : BOOLEAN]

InitAsm ==
    \E l \in Launchers :
      \E o \in OptionSpace(l) :
        /\ Start(l, [n \in {} |-> EmptyStr], o, [dirs |-> BaseDirs, files |-> BaseFiles])
        /\ argv = <<Script(l)>>

\* the flag-dependent part of the command on its own
AssembleOptions ==
    /\ pc \in {"parse", "image"}
    /\ args' = option_args(launcher, flags)
    /\ pc' = "assembled"
    /\ UNCHANGED <<launcher, env, argv, flags, fs, fs0, binds, cpaths, command, options, sif,
                   exit_code, log, bind_calls, invocations, cstate, produced, printed>>

NextAsm == AssembleOptions

SpecAsm == InitAsm /\ [][NextAsm]_vars

----------------------------------------------------------------------------
(* Vocabulary of the properties *)

\* the mount point names the launchers create a host directory for
WritableRole(l, n) ==
    startswith(n, "output") \/ n = "tmp" \/ (l = "boltz" /\ n = "boltz_cache")

\* the number of arguments of list a named `name`
ArgCount(a, name) == Cardinality({i \in DOMAIN a : a[i][1] = name})

HasArg(a, name) == ArgCount(a, name) > 0

\* the number of occurrences of the argument `token` in list a
TokenCount(a, token) == Cardinality({i \in DOMAIN a : a[i] = token})

Logged(what) == \E i \in DOMAIN log : log[i][1] = what

----------------------------------------------------------------------------
(* C7 *)

\* the place the host path of a call names, "~" expanded by the Boltz script
HostPlace(l, host_path) ==
    AbsParts(IF l = "boltz" THEN expanduser(host_path) ELSE host_path)

MountRoot(l) == IF l = "boltz" THEN <<"mnt_launcher">> ELSE <<"mnt">>

\* C7: every call of _create_bind that returns gives the container path
\* <mount root>/<role> for a directory and <mount root>/<role>/<base name of the
\* host path> for a file, binds the host path itself for a directory and the
\* parent directory of the host path for a file, and for a writable role the
\* host side of the bind is an existing directory when the call returns.
\* (The empty string is no path and has no base name: the scripts take the
\* base name of the working directory for it.)
C7_CreateBindResult ==
    \A i \in DOMAIN bind_calls :
      LET c    == bind_calls[i]
          here == HostPlace(launcher, c.host_path)
      IN  c.outcome = "return" =>
            /\ c.host_path # EmptyStr =>
                 c.container_path =
                   P(TRUE, MountRoot(launcher) \o <<c.name>>
                           \o (IF c.is_dir THEN <<>>
                               ELSE <<c.host_path.parts[Len(c.host_path.parts)]>>))
            /\ c.bind_spec[1] =
                 P(TRUE, IF c.is_dir THEN here ELSE SubSeq(here, 1, Len(here) - 1))
            /\ c.bind_spec[2] = P(TRUE, MountRoot(launcher) \o <<c.name>>)
            /\ WritableRole(launcher, c.name) => c.bind_spec[1].parts \in fs.dirs

\* a call for a writable role with a relative host path that did not exist has
\* returned, and so has a call for a file
C7_Witness ==
    /\ pc = "returned"
    /\ \E i \in DOMAIN bind_calls :
         /\ bind_calls[i].outcome = "return"
         /\ WritableRole(launcher, bind_calls[i].name)
         /\ ~bind_calls[i].host_exists
         /\ ~bind_calls[i].host_path.abs
         /\ ~bind_calls[i].is_dir

----------------------------------------------------------------------------
(* C2, C3, C4: the assembled argument list *)

\* the scalar flags each launcher forwards, with the argument name of each
ScalarArgOf(l) ==
    CASE l = "boltz" ->
           [devices |-> "--devices", accelerator |-> "--accelerator",
            recycling_steps |-> "--recycling_steps", sampling_steps |-> "--sampling_steps",
            diffusion_samples |-> "--diffusion_samples", step_scale |-> "--step_scale",
            output_format |-> "--output_format", num_workers |-> "--num_workers",
            seed |-> "--seed", msa_server_url |-> "--msa_server_url",
            msa_pairing_strategy |-> "--msa_pairing_strategy"]
      [] l = "chai" ->
           [msa_server_url |-> "--msa-server-url",
            recycle_msa_subsample |-> "--recycle-msa-subsample",
            num_trunk_recycles |-> "--num-trunk-recycles",
            num_diffn_timesteps |-> "--num-diffn-timesteps",
            num_diffn_samples |-> "--num-diffn-samples",
            num_trunk_samples |-> "--num-trunk-samples",
            seed |-> "--seed", device |-> "--device"]
      [] l = "af3" ->
           [conformer_max_iterations |-> "--conformer_max_iterations",
            jackhmmer_n_cpu |-> "--jackhmmer_n_cpu", nhmmer_n_cpu |-> "--nhmmer_n_cpu",
            max_template_date |-> "--max_template_date", num_recycles |-> "--num_recycles",
            num_diffusion_samples |-> "--num_diffusion_samples",
            flash_attention_implementation |-> "--flash_attention_implementation",
            num_seeds |-> "--num_seeds"]

\* scalar flags whose default is None, and floating-point flags
OptionalFlags == {"seed", "device", "num_seeds"}

FloatFlags == {"step_scale"}

\* the flag differs from the default of its definition: exactly, or by the
\* tolerance 1e-6 or more for a floating-point flag
DiffersFromDefault(l, k) ==
    IF k \in FloatFlags
    THEN Abs(flags[k] - flag_defaults(l)[k]) >= StepScaleTolerance
    ELSE flags[k] # flag_defaults(l)[k]

\* every argument named after flag k carries the value of the flag
CarriesValue(l, k) ==
    \A i \in DOMAIN args :
        args[i][1] = ScalarArgOf(l)[k] =>
            /\ Len(args[i]) = 2
            /\ args[i][2] = (IF k \in OptionalFlags THEN flags[k][1] ELSE flags[k])

\* flag k is emitted at most once, with its value, and only when it differs
\* from its default
SuppressedAtDefault(l, k) ==
    /\ ArgCount(args, ScalarArgOf(l)[k]) <= 1
    /\ HasArg(args, ScalarArgOf(l)[k]) => (DiffersFromDefault(l, k) /\ CarriesValue(l, k))

\* C2 as stated: in every launcher a scalar flag is emitted only when its value
\* differs from its recorded default
C2_Original ==
    pc = "assembled" =>
        \A k \in DOMAIN ScalarArgOf(launcher) : SuppressedAtDefault(launcher, k)

\* C2 amended: the Boltz and Chai Lab launchers emit a scalar flag only when its
\* value differs from its default; Boltz emits step_scale exactly when it is
\* farther than 1e-6 from 1.638, or is 1.638001, whose distance the double
\* arithmetic of the comparison finds greater than 1e-6 (that of 1.637999 it
\* does not); the AlphaFold3 launcher emits every scalar flag with its value
\* whatever the value is, except --num_seeds, which it emits exactly when the
\* flag is not None
C2_ScalarSuppression ==
    pc = "assembled" =>
        IF launcher \in {"boltz", "chai"}
        THEN /\ \A k \in DOMAIN ScalarArgOf(launcher) : SuppressedAtDefault(launcher, k)
             /\ launcher = "boltz" =>
                   (HasArg(args, "--step_scale") <=>
                      \/ Abs(flags.step_scale - StepScaleDefault) > StepScaleTolerance
                      \/ flags.step_scale = StepScaleDefault + StepScaleTolerance)
        ELSE \A k \in DOMAIN ScalarArgOf(launcher) :
                /\ CarriesValue(launcher, k)
                /\ ArgCount(args, ScalarArgOf(launcher)[k]) =
                     (IF k = "num_seeds" /\ flags[k] = None THEN 0 ELSE 1)

\* Boltz has assembled a command line with --devices changed, recycling_steps at
\* its default and step_scale 1e-6 below its default, which is not emitted
C2_Witness ==
    /\ pc = "assembled"
    /\ launcher = "boltz"
    /\ flags.devices = 2 /\ HasArg(args, "--devices")
    /\ flags.recycling_steps = 3 /\ ~HasArg(args, "--recycling_steps")
    /\ flags.step_scale = StepScaleDefault - StepScaleTolerance
    /\ ~HasArg(args, "--step_scale")

\* the two tokens of each boolean flag a launcher forwards
BoolTokens(l) ==
    CASE l = "boltz" ->
           [write_full_pae    |-> [on |-> <<"--write_full_pae">>, off |-> <<"--no-write-full-pae">>],
            write_full_pde    |-> [on |-> <<"--write_full_pde">>, off |-> <<"--no-write-full-pde">>],
            override          |-> [on |-> <<"--override">>, off |-> <<"--no-override">>],
            use_msa_server    |-> [on |-> <<"--use_msa_server">>, off |-> <<"--no-use-msa-server">>],
            enable_potentials |-> [on |-> <<"--potentials">>, off |-> <<"--no_potentials">>]]
      [] l = "chai" ->
           [use_esm_embeddings   |-> [on |-> <<"--use-esm-embeddings">>,
                                      off |-> <<"--use-esm-embeddings=false">>],
            use_msa_server       |-> [on |-> <<"--use-msa-server">>,
                                      off |-> <<"--use-msa-server=false">>],
            use_templates_server |-> [on |-> <<"--use-templates-server">>,
                                      off |-> <<"--use-templates-server=false">>],
            low_memory           |-> [on |-> <<"--low-memory">>,
                                      off |-> <<"--low-memory=false">>]]
      [] l = "af3" ->
           [run_data_pipeline |-> [on |-> <<"--run_data_pipeline", "true">>,
                                   off |-> <<"--run_data_pipeline", "false">>],
            run_inference     |-> [on |-> <<"--run_inference", "true">>,
                                   off |-> <<"--run_inference", "false">>],
            save_embeddings   |-> [on |-> <<"--save_embeddings", "true">>,
                                   off |-> <<"--save_embeddings", "false">>],
            force_output_dir  |-> [on |-> <<"--force_output_dir", "true">>,
                                   off |-> <<"--force_output_dir", "false">>]]

\* exactly one token of flag k: the enabled one when the flag is true, the
\* disabled one when it is false
ExactlyOneToken(l, k) ==
    LET t == BoolTokens(l)[k] IN
    /\ TokenCount(args, t.on) = (IF flags[k] THEN 1 ELSE 0)
    /\ TokenCount(args, t.off) = (IF flags[k] THEN 0 ELSE 1)

\* the token of the value that is not the default, once, exactly when the flag
\* is not at its default; the other token never
OnlyNonDefaultToken(l, k) ==
    LET t == BoolTokens(l)[k]
        d == flag_defaults(l)[k]
    IN  /\ TokenCount(args, IF d THEN t.off ELSE t.on) = (IF flags[k] # d THEN 1 ELSE 0)
        /\ TokenCount(args, IF d THEN t.on ELSE t.off) = 0

\* C3 as stated: every launcher emits exactly one of the two tokens of every
\* boolean flag it forwards
C3_Original ==
    pc = "assembled" =>
        \A k \in DOMAIN BoolTokens(launcher) : ExactlyOneToken(launcher, k)

\* C3 amended: the Boltz and AlphaFold3 launchers emit exactly one of the two
\* tokens of every boolean flag they forward; the Chai Lab launcher emits for
\* each boolean flag the token of its non-default value exactly when the flag
\* differs from its default, and nothing when the flag is at its default
C3_BooleanTokens ==
    pc = "assembled" =>
        IF launcher \in {"boltz", "af3"}
        THEN \A k \in DOMAIN BoolTokens(launcher) : ExactlyOneToken(launcher, k)
        ELSE \A k \in DOMAIN BoolTokens(launcher) : OnlyNonDefaultToken(launcher, k)

\* Boltz has assembled a command line with override on and write_full_pae off,
\* each with its one token
C3_Witness ==
    /\ pc = "assembled"
    /\ launcher = "boltz"
    /\ flags.override /\ TokenCount(args, <<"--override">>) = 1
    /\ ~flags.write_full_pae /\ TokenCount(args, <<"--no-write-full-pae">>) = 1

\* C4 as stated: with use_msa_server false the Boltz and Chai Lab argument lists
\* hold no MSA-server URL and no MSA pairing strategy
C4_Original ==
    (pc = "assembled" /\ launcher \in {"boltz", "chai"} /\ ~flags.use_msa_server) =>
        /\ ~HasArg(args, "--msa_server_url")
        /\ ~HasArg(args, "--msa-server-url")
        /\ ~HasArg(args, "--msa_pairing_strategy")

----------------------------------------------------------------------------
(* C1, C5, C6, C8, C9, C10: the run of a launcher *)

\* a call of _create_bind for a mount that is not writable, with a host path
\* that did not exist
MissingRequiredPath(c) == ~WritableRole(launcher, c.name) /\ ~c.host_exists

\* C1 as stated: a call of _create_bind for a non-writable role with a host path
\* that does not exist ends the run with a fatal error and a non-zero exit code,
\* and the container is never invoked in that run
C1_Original ==
    \A i \in DOMAIN bind_calls :
        MissingRequiredPath(bind_calls[i]) =>
            /\ bind_calls[i].outcome = "exit"
            /\ pc = "done"
            /\ exit_code # None /\ exit_code # Some(0)
            /\ Logged("bind_path_missing")
            /\ invocations = 0

\* the image path the script settled on does not exist on the host, or the
\* image failed to load
ImageUnusable ==
    /\ sif # None
    /\ ~exists(fs0, sif[1]) \/ Logged("image_load_error")

\* C5: when the image path does not exist or the image fails to load, the
\* process has reported that path and nothing else, has exited with code 1, has
\* called _create_bind never, has left the host filesystem as it found it and
\* has not invoked the container
C5_ImageFailure ==
    ImageUnusable =>
        /\ pc = "done"
        /\ exit_code = Some(1)
        /\ Len(log) = 1
        /\ log[1][1] \in {"image_not_found", "image_load_error"}
        /\ log[1][2] = sif[1]
        /\ bind_calls = <<>>
        /\ binds = <<>>
        /\ fs = fs0
        /\ invocations = 0
        /\ cstate = "none"

\* scenario 3: no image flag, no image variable, the hardcoded path is missing
C5_Witness ==
    /\ pc = "done"
    /\ launcher = "boltz"
    /\ flags.sif_path = None
    /\ SifVar(launcher) \notin DOMAIN env
    /\ flags.input_data # None
    /\ exit_code = Some(1)
    /\ log = << <<"image_not_found", P(TRUE, <<"path", "to", "your", "boltz.sif">>)>> >>

\* the configuration errors a run can have: a required flag missing, a required
\* host path missing, the image not found, an exception of the launch
ConfigurationError ==
    \/ \E n \in RequiredFlags(launcher) : flags[n] = None
    \/ UsageError(launcher, flags)
    \/ \E i \in DOMAIN bind_calls : MissingRequiredPath(bind_calls[i])
    \/ sif # None /\ ~exists(fs0, sif[1])
    \/ invocations > 0 /\ cstate = "failed"

\* C6 as stated: a run ends with exit code 0 or 1, 0 only when the container was
\* invoked and its output streamed to completion without an exception, and 1
\* for each configuration error
C6_Original ==
    pc = "done" =>
        /\ exit_code \in {Some(0), Some(1)}
        /\ exit_code = Some(0) =>
              (invocations = 1 /\ cstate = "closed" /\ printed = produced)
        /\ ConfigurationError => exit_code = Some(1)

\* C8 as stated: while the container runs, the host path of every bind exists
C8_Original ==
    (invocations > 0 /\ pc = "stream") =>
        \A i \in DOMAIN binds : binds[i][1].parts \in fs.dirs \cup fs.files

\* the image flag is set: the launcher defines it and it holds a non-empty value
ImageFlagSet == launcher # "af3" /\ flags.sif_path # None /\ flags.sif_path[1] # EmptyStr

\* C9: the image path of the run is the value of the image flag when that flag
\* is set (the AlphaFold3 launcher has no such flag), otherwise the value of
\* the image variable of the launcher when the environment has it, otherwise
\* the hardcoded path
C9_ImagePath ==
    sif # None =>
        sif[1] = IF ImageFlagSet THEN flags.sif_path[1]
                 ELSE IF "BOLTZ_SIF" \in DOMAIN env /\ launcher = "boltz"
                      THEN env["BOLTZ_SIF"]
                 ELSE IF "CHAI_SIF" \in DOMAIN env /\ launcher = "chai"
                      THEN env["CHAI_SIF"]
                 ELSE IF "ALPHAFOLD3_SIF" \in DOMAIN env /\ launcher = "af3"
                      THEN env["ALPHAFOLD3_SIF"]
                 ELSE P(TRUE, <<"path", "to", "your",
                                CASE launcher = "boltz" -> "boltz.sif"
                                  [] launcher = "chai"  -> "chai_lab.sif"
                                  [] launcher = "af3"   -> "alphafold3.sif">>)

\* a run whose image flag and image variable name different paths has settled
\* on the path of the flag and loaded it
C9_Witness ==
    /\ launcher = "chai"
    /\ flags.sif_path = Some(ImgSif)
    /\ "CHAI_SIF" \in DOMAIN env
    /\ env["CHAI_SIF"] # ImgSif
    /\ sif = Some(ImgSif)
    /\ pc = "validate"

\* C10: once the container execution has failed (the launch raised, or the
\* stream raised after a non-zero exit), the container has been invoked exactly
\* once, the success message is not logged, and when the process is over it has
\* logged the error and exited with code 1; no run invokes the container twice
C10_ExecutionFailure ==
    /\ invocations <= 1
    /\ cstate = "failed" =>
          /\ invocations = 1
          /\ ~Logged("prediction_finished")
          /\ pc \in {"stream", "except", "done"}
          /\ pc = "done" =>
                /\ exit_code = Some(1)
                /\ log[Len(log)] = <<"error_executing">>

\* a run whose container wrote lines and then failed is over
C10_Witness ==
    /\ pc = "done"
    /\ cstate = "failed"
    /\ printed # <<>>
    /\ printed = produced
    /\ exit_code = Some(1)

----------------------------------------------------------------------------
(* C11: the path-valued arguments of the command *)

\* the name of the argument that carries the path of mount `name` ("" for a
\* positional argument, None for a mount whose path is no argument)
PathArgOf(l, name) ==
    CASE l = "boltz" /\ name = "input_data"      -> Some("")
      [] l = "boltz" /\ name = "output"          -> Some("--out_dir")
      [] l = "boltz" /\ name = "boltz_cache"     -> Some("--cache")
      [] l = "boltz" /\ name = "checkpoint_file" -> Some("--checkpoint")
      [] l = "chai"  /\ name = "fasta"           -> Some("")
      [] l = "chai"  /\ name = "output"          -> Some("")
      [] l = "chai"  /\ name = "msa_dir"         -> Some("--msa-directory")
      [] l = "chai"  /\ name = "constraints"     -> Some("--constraint-path")
      [] l = "chai"  /\ name = "template_hits"   -> Some("--template-hits-path")
      [] l = "af3"   /\ name = "input_dir"       -> Some("--input_dir")
      [] l = "af3"   /\ name = "json_input"      -> Some("--json_path")
      [] l = "af3"   /\ name = "output"          -> Some("--output_dir")
      [] l = "af3"   /\ name = "models"          -> Some("--model_dir")
      [] l = "af3"   /\ name \in {DbName(k) : k \in 0..3} -> Some("--db_dir")
      [] OTHER -> None

\* the names of the path-valued arguments of the command of launcher l
PathArgNames(l) ==
    CASE l = "boltz" -> {"", "--out_dir", "--cache", "--checkpoint"}
      [] l = "chai"  -> {"", "--msa-directory", "--constraint-path", "--template-hits-path"}
      [] l = "af3"   -> {"--input_dir", "--json_path", "--output_dir", "--model_dir",
                         "--db_dir"}

IsPathArg(a) == a[1] \in PathArgNames(launcher)

\* the path-valued arguments of command c, in their order
PathArgs(c) == SelectSeq(c, IsPathArg)

\* a call of _create_bind that returned, for a mount whose path is an argument
IsArgBindCall(c) == c.outcome = "return" /\ PathArgOf(launcher, c.name) # None

\* the argument that main derives from such a call
ArgOfCall(c) == <<PathArgOf(launcher, c.name)[1], c.container_path>>

\* what the calls of _create_bind of the run make the path-valued arguments be
ExpectedPathArgs ==
    LET calls == SelectSeq(bind_calls, IsArgBindCall)
    IN  [i \in DOMAIN calls |-> ArgOfCall(calls[i])]

IsPrefixOf(s, t) == Len(s) <= Len(t) /\ SubSeq(t, 1, Len(s)) = s

\* the command has been assembled
Assembled == pc \in {"options", "execute", "stream", "except", "done"} /\ command # <<>>

\* end-to-end scenario 1: Boltz, an existing input file, an output directory
\* that does not exist
Scenario1 ==
    /\ launcher = "boltz"
    /\ flags.input_data = Some(DataFile)
    /\ DataFile.parts \in fs0.files
    /\ flags.out_dir = OutDir
    /\ OutDir.parts \notin fs0.dirs \cup fs0.files

\* C11: every path-valued argument of the assembled command is the container
\* path _create_bind returned for the mount of that argument, a path under the
\* mount root and not the host path, one argument per mount and in the order
\* of the binds, with the positional paths in their places; in scenario 1 the
\* input bind has host side /data, the positional input ends in the base name
\* of the input file, /out has been created and the command has --out_dir=
\* with the container path of the output mount
C11_PathArguments ==
    Assembled =>
        /\ PathArgs(command) = ExpectedPathArgs
        /\ \A i \in DOMAIN bind_calls :
              IsArgBindCall(bind_calls[i]) =>
                 /\ bind_calls[i].container_path # bind_calls[i].host_path
                 /\ IsPrefixOf(ROOT_MOUNT_DIRECTORY(launcher).parts
                                  \o <<bind_calls[i].name>>,
                               bind_calls[i].container_path.parts)
        /\ launcher = "boltz" => command[3] = <<"", bind_calls[1].container_path>>
        /\ launcher = "chai" =>
              /\ command[3] = <<"", bind_calls[1].container_path>>
              /\ command[4] = <<"", bind_calls[2].container_path>>
        /\ Scenario1 =>
              /\ binds[1][1] = DataDir
              /\ command[3][2].parts[Len(command[3][2].parts)] = "in.fasta"
              /\ OutDir.parts \in fs.dirs
              /\ \E j \in DOMAIN command :
                    /\ command[j][1] = "--out_dir"
                    /\ command[j][2] = P(TRUE, <<"mnt_launcher", "output">>)

\* scenario 1 has reached the container invocation
C11_Witness ==
    /\ Scenario1
    /\ pc = "stream"
    /\ invocations = 1
    /\ Len(command) > 3

----------------------------------------------------------------------------
(* C12: what an execution failure removes from the host *)

\* the host paths a step removes
Removed == (fs.dirs \cup fs.files) \ (fs'.dirs \cup fs'.files)

\* C12: no step of a run removes a host path, except that the step handling an
\* execution failure may remove the default output directory, and only when
\* the output-directory flag equals that default and the directory exists and
\* is empty; every other path (a non-default or non-empty output directory,
\* the cache and tmp directories among them) stays, and no file becomes a
\* directory or a directory a file
C12_FailureCleanup ==
    [][ /\ fs.dirs \cap fs'.files = {}
        /\ fs.files \cap fs'.dirs = {}
        /\ Removed \subseteq {AbsParts(output_dir_default(launcher))}
        /\ Removed # {} =>
              /\ pc = "except" /\ pc' = "done"
              /\ cstate = "failed"
              /\ launcher = "af3"
              /\ flags.output_dir = output_dir_default(launcher)
              /\ isdir(fs, output_dir_default(launcher))
              /\ ~listdir_nonempty(fs, output_dir_default(launcher))
      ]_vars

\* an AlphaFold3 run with the default output directory failed and the empty
\* directory is gone, the tmp directory still there
C12_Witness ==
    /\ launcher = "af3"
    /\ pc = "done"
    /\ cstate = "failed"
    /\ flags.output_dir = output_dir_default(launcher)
    /\ ~exists(fs, output_dir_default(launcher))
    /\ isdir(fs, tmp_dir(env))

----------------------------------------------------------------------------
(* C13: the phases of a run *)

\* the phase a position of the script belongs to: 0 Idle, 1 Resolving Binds,
\* 2 Assembling Command, 3 Invoking, 4 Streaming, 5 Terminated
Phase(p) ==
    CASE p \in {"parse", "main", "image", "load", "validate"} -> 0
      [] p \in {"boltz_input", "boltz_output", "boltz_cache", "boltz_checkpoint",
                "chai_fasta", "chai_output", "chai_msa", "chai_constraints",
                "chai_template", "af3_input", "af3_output", "af3_models", "af3_db",
                "bind_tmp"} -> 1
      [] p \in {"assemble", "options"} -> 2
      [] p = "execute" -> 3
      [] p = "stream" -> 4
      [] p \in {"except", "done"} -> 5

\* C13: every step of a run stays in its phase, moves to the next phase, or
\* stops in Terminated, from a phase before Streaming always as a failure; so
\* no phase is entered again; _create_bind is called only while binds are
\* resolved and before the command exists; the container is invoked at most
\* once, from Invoking, and from then on the command, the runtime options and
\* the bind list do not change; nothing changes the outcome once Terminated
C13_Phases ==
    [][ /\ Phase(pc') \in {Phase(pc), Phase(pc) + 1, 5}
        /\ (Phase(pc') = 5 /\ Phase(pc) < 4) =>
              (pc' = "except" \/ exit_code' = Some(1))
        /\ bind_calls' # bind_calls =>
              (Phase(pc) = 1 /\ command = <<>> /\ options = <<>> /\ invocations = 0)
        /\ invocations' # invocations =>
              (Phase(pc) = 3 /\ invocations = 0 /\ invocations' = 1 /\ command # <<>>)
        /\ invocations > 0 =>
              (command' = command /\ options' = options /\ binds' = binds
               /\ args' = args)
        /\ Phase(pc) >= 2 => (binds' = binds /\ cpaths' = cpaths)
        /\ pc = "done" => (pc' = "done" /\ exit_code' = exit_code /\ log' = log)
      ]_vars

\* a run has gone through every phase and ended with success
C13_Witness ==
    /\ pc = "done"
    /\ exit_code = Some(0)
    /\ invocations = 1
    /\ Len(binds) >= 3
    /\ command # <<>>
    /\ printed = produced /\ produced # <<>>

----------------------------------------------------------------------------
(* C14: the lines printed and the lines produced *)

\* C14: at every moment the lines the launcher has printed are a prefix of the
\* lines the container has produced, and a run that ended with success has
\* printed every produced line
C14_StreamPrefix ==
    /\ IsPrefixOf(printed, produced)
    /\ (pc = "done" /\ exit_code = Some(0)) => printed = produced

\* the container is still running and is a line ahead of the reading loop
C14_Witness ==
    /\ cstate = "running"
    /\ pc = "stream"
    /\ Len(printed) = 1
    /\ Len(produced) = 2

----------------------------------------------------------------------------
(* C15: termination of the launcher once the container is invoked *)

\* the steps of the launcher process (the script); the container process takes
\* the steps ContainerWrite, ContainerSave and ContainerEnd
LauncherStep ==
    \/ ParseFlags \/ CheckArgv \/ CheckImage \/ LoadImage \/ ValidateArgs
    \/ BoltzBindInput \/ BoltzBindOutput \/ BoltzBindCache \/ BoltzBindCheckpoint
    \/ ChaiBindFasta \/ ChaiBindOutput \/ ChaiBindMsa \/ ChaiBindConstraint
    \/ ChaiBindTemplate
    \/ Af3BindInput \/ Af3BindOutput \/ Af3BindModels \/ Af3BindDb
    \/ BindTmp \/ AssembleCommand \/ BuildOptions \/ Execute
    \/ PrintLine \/ StreamEnd \/ HandleException

\* the launcher process keeps running while it has a step to take; nothing is
\* assumed of the container process, which may hang
\* the runs whose termination is checked: every command line of Init with the
\* default option flags, the image variable set, and a host that has every
\* optional entry or none of them
InitLive ==
    \E l \in Launchers :
      \E f \in {h \in HostFilesystems(l) :
                    \/ h.dirs = BaseDirs /\ h.files = BaseFiles
                    \/ h.dirs = BaseDirs \cup OptionalDirs(l)
                         /\ h.files = BaseFiles \cup OptionalFiles(l)} :
        \E pf \in RunPathFlags(l, [n \in {SifVar(l), "TMPDIR"} |-> EnvValue(n)]),
           a \in ArgvSpace(l) :
          /\ Start(l, [n \in {SifVar(l), "TMPDIR"} |-> EnvValue(n)],
                   WithFlags(flag_defaults(l), pf), f)
          /\ argv = a

SpecLive == InitLive /\ [][Next]_vars /\ WF_vars(LauncherStep)

\* C15: while the invoked container has neither closed its stream nor failed,
\* the launcher stays in the reading loop without an exit code, and once the
\* stream has ended or the execution has raised the launcher terminates
C15_Termination ==
    /\ [](cstate = "running" => (pc = "stream" /\ exit_code = None))
    /\ (invocations = 1 /\ cstate \in {"closed", "failed"}) ~> (pc = "done")

\* the launcher has printed all there is and waits for a container that has
\* not ended
C15_Witness ==
    /\ cstate = "running"
    /\ pc = "stream"
    /\ produced # <<>>
    /\ printed = produced
    /\ exit_code = None

----------------------------------------------------------------------------
(* C16, C17: the runtime options *)

\* the calls of _create_bind of the run that returned, in their order
ReturnedCall(c) == c.outcome = "return"

ResolvedMounts == SelectSeq(bind_calls, ReturnedCall)

\* the runtime options have been built
OptionsBuilt == pc \in {"execute", "stream", "except", "done"} /\ options # <<>>

\* C16: the value of --bind lists the mounts resolved in the run, one bind spec
\* per mount and in the order of resolution, a comma between neighbours; the
\* spec of a mount is host:container, the host side being the host path (its
\* parent directory for a file) and the container side <mount root>/<role>,
\* and it carries the suffix ro exactly when the mount was resolved as
\* read-only
C16_BindOption ==
    OptionsBuilt =>
        LET v == options[1][2]
            n == Len(ResolvedMounts)
        IN  /\ options[1][1] = "--bind"
            /\ n >= 1
            /\ Len(v) = 2 * n - 1
            /\ \A k \in 1..n :
                  LET c    == ResolvedMounts[k]
                      s    == v[2 * k - 1]
                      here == HostPlace(launcher, c.host_path)
                  IN  /\ Len(s) = IF c.read_only THEN 3 ELSE 2
                      /\ s[1] = P(TRUE, IF c.is_dir THEN here
                                        ELSE SubSeq(here, 1, Len(here) - 1))
                      /\ s[2] = P(TRUE, MountRoot(launcher) \o <<c.name>>)
                      /\ c.read_only => s[3] = "ro"
            /\ \A k \in 1..(n - 1) : v[2 * k] = ","

\* a Boltz run with a checkpoint has built its options: five mounts, the
\* first and the fourth read-only
C16_Witness ==
    /\ launcher = "boltz"
    /\ pc = "execute"
    /\ Len(ResolvedMounts) = 5
    /\ Len(options[1][2]) = 9
    /\ Len(options[1][2][1]) = 3
    /\ Len(options[1][2][3]) = 2
    /\ Len(options[1][2][7]) = 3

\* the runtime options set the container environment variable `name` to value
HasEnv(o, name, value) ==
    \E i \in DOMAIN o : o[i][1] = "--env" /\ o[i][2] = name /\ o[i][3] = value

\* C17 as stated: the runtime options of every invocation set
\* NVIDIA_VISIBLE_DEVICES to the gpu_devices flag and TMPDIR to the container
\* path of the tmp mount
C17_Original ==
    (OptionsBuilt /\ invocations > 0) =>
        /\ HasEnv(options, "NVIDIA_VISIBLE_DEVICES", flags.gpu_devices)
        /\ "tmp" \in DOMAIN cpaths
        /\ HasEnv(options, "TMPDIR", P(TRUE, MountRoot(launcher) \o <<"tmp">>))

----------------------------------------------------------------------------
(* C18: _create_bind called twice *)

\* C18: after a call of _create_bind that returned, the same call on the host
\* filesystem the first call left returns too, with the same bind spec and the
\* same container path, and leaves the filesystem as it is
C18_Idempotent ==
    [][ pc = "returned" =>
          /\ pc' = "returned_twice"
          /\ exit_code' = None
          /\ fs' = fs
          /\ Len(bind_calls') = 2
          /\ bind_calls'[2].outcome = "return"
          /\ bind_calls'[2].bind_spec = bind_calls[1].bind_spec
          /\ bind_calls'[2].container_path = bind_calls[1].container_path
          /\ binds' = <<binds[1], binds[1]>>
      ]_vars

\* the first call created the host directory of a writable role and the second
\* call has returned
C18_Witness ==
    /\ pc = "returned_twice"
    /\ WritableRole(launcher, flags.name)
    /\ bind_calls[1].bind_spec[1].parts \notin fs0.dirs
    /\ bind_calls[1].bind_spec[1].parts \in fs.dirs
    /\ bind_calls[2].outcome = "return"

----------------------------------------------------------------------------
(* C19: the output mount of the Chai Lab launcher *)

\* the calls of _create_bind for the output mount that returned
OutputCalls ==
    {i \in DOMAIN bind_calls :
        bind_calls[i].name = "output" /\ bind_calls[i].outcome = "return"}

\* --output_dir existed and was not empty when the run started
OutputDirInUse == isdir(fs0, flags.output_dir) /\ listdir_nonempty(fs0, flags.output_dir)

\* the host directory of a bind was there when the run started
BoundDirExisted(c) == exists(fs0, c.bind_spec[1])

\* the host directory of a bind held entries when the run started
BoundDirInUse(c) == isdir(fs0, c.bind_spec[1]) /\ listdir_nonempty(fs0, c.bind_spec[1])

\* C19: in the Chai Lab launcher the directory bound as the output mount is a
\* new subdirectory run_<timestamp> of --output_dir (one the host did not have
\* when the run started) exactly when --output_dir existed, was not empty and
\* force_output_dir is false, and --output_dir itself otherwise; with
\* force_output_dir false no directory that existed and was not empty is the
\* host side of the output bind; the bound directory exists from the moment it
\* is bound, so before the container is invoked
C19_Original ==
    launcher = "chai" =>
        \A i \in OutputCalls :
            LET c == bind_calls[i] IN
            /\ c.bind_spec[1] = abspath(c.host_path)
            /\ (c.host_path = join(flags.output_dir, RunSubdir))
                  <=> (OutputDirInUse /\ ~flags.force_output_dir)
            /\ c.host_path = join(flags.output_dir, RunSubdir)
                  => ~BoundDirExisted(c)
            /\ c.host_path # join(flags.output_dir, RunSubdir)
                  => c.host_path = flags.output_dir
            /\ ~flags.force_output_dir => ~BoundDirInUse(c)
            /\ c.bind_spec[1].parts \in fs.dirs
            /\ c.bind_spec[2] = P(TRUE, <<"mnt", "output">>)

----------------------------------------------------------------------------
(* C20: the input argument of the AlphaFold3 launcher *)

BoundAs(name) == \E i \in DOMAIN bind_calls : bind_calls[i].name = name

\* C20: in the AlphaFold3 launcher every assembled command has exactly one
\* input argument, --input_dir= or --json_path=; a run with neither flag set
\* never calls _create_bind nor builds a command, and ends with exit code 1,
\* with the usage error of main when the image loaded and the required flags
\* were given; a run with both flags set binds and passes only --input_dir:
\* no json_input mount is resolved and no --json_path= argument is passed
C20_Af3InputArgument ==
    launcher = "af3" =>
        /\ Assembled =>
              ArgCount(command, "--input_dir") + ArgCount(command, "--json_path") = 1
        /\ (~Truthy(flags.json_path) /\ ~Truthy(flags.input_dir)) =>
              /\ pc \in {"image", "load", "parse", "main", "validate", "done"}
              /\ bind_calls = <<>> /\ binds = <<>> /\ args = <<>> /\ command = <<>>
              /\ invocations = 0
              /\ pc = "done" =>
                    /\ exit_code = Some(1)
                    /\ log[Len(log)][1] \in {"image_not_found", "image_load_error",
                                             "flags_error", "usage_error"}
                    /\ (Truthy(flags.model_dir) /\ flags.db_dir # None
                          /\ ~Logged("image_not_found") /\ ~Logged("image_load_error"))
                       => log[Len(log)] = <<"usage_error">>
        /\ (Truthy(flags.json_path) /\ Truthy(flags.input_dir)) =>
              /\ ~BoundAs("json_input")
              /\ ~HasArg(args, "--json_path")
              /\ bind_calls # <<>> =>
                    (bind_calls[1].name = "input_dir"
                     /\ bind_calls[1].host_path = flags.input_dir[1])
              /\ Assembled =>
                    /\ ArgCount(command, "--json_path") = 0
                    /\ command[3] = <<"--input_dir", P(TRUE, <<"mnt", "input_dir">>)>>

\* an AlphaFold3 run with both input flags set has invoked the container
C20_Witness ==
    /\ launcher = "af3"
    /\ Truthy(flags.json_path)
    /\ Truthy(flags.input_dir)
    /\ invocations = 1
    /\ pc = "stream"
    /\ BoundAs("input_dir")

----------------------------------------------------------------------------
(* C21: read-only mounts of the Boltz launcher *)

\* the mount point name of a bind spec: the component after the mount root
MountOf(s) == s[2].parts[Len(s[2].parts)]

BindNamed(name) == \E i \in DOMAIN binds : MountOf(binds[i]) = name

\* C21: in a Boltz run that has invoked the container, the bind specs of the
\* input_data mount and of the checkpoint_file mount end in ro and those of
\* the output, boltz_cache and tmp mounts do not; the input_data, output,
\* boltz_cache and tmp mounts are bound, and the checkpoint_file mount exactly
\* when a checkpoint is given; a run whose checkpoint flag names something
\* that is not an existing regular file never gets past the checkpoint step,
\* never invokes the container and ends with exit code 1
C21_BoltzReadOnly ==
    launcher = "boltz" =>
        /\ invocations > 0 =>
              /\ \A i \in DOMAIN binds :
                    /\ MountOf(binds[i]) \in {"input_data", "checkpoint_file"} =>
                          (Len(binds[i]) = 3 /\ binds[i][3] = "ro")
                    /\ MountOf(binds[i]) \in {"output", "boltz_cache", "tmp"} =>
                          Len(binds[i]) = 2
                    /\ MountOf(binds[i]) \in {"input_data", "checkpoint_file", "output",
                                              "boltz_cache", "tmp"}
              /\ BindNamed("input_data") /\ BindNamed("output")
              /\ BindNamed("boltz_cache") /\ BindNamed("tmp")
              /\ BindNamed("checkpoint_file") <=> Truthy(flags.checkpoint)
        /\ (Truthy(flags.checkpoint) /\ ~isfile(fs0, flags.checkpoint[1])) =>
              /\ invocations = 0
              /\ ~BindNamed("checkpoint_file") /\ ~BindNamed("tmp")
              /\ command = <<>>
              /\ pc \in {"parse", "main", "image", "load", "validate", "boltz_input",
                         "boltz_output", "boltz_cache", "boltz_checkpoint", "done"}
              /\ pc = "done" => exit_code = Some(1)

\* a Boltz run with a checkpoint file has invoked the container: five binds,
\* the input and the checkpoint read-only
C21_Witness ==
    /\ launcher = "boltz"
    /\ flags.checkpoint = Some(CkptFile)
    /\ invocations = 1
    /\ pc = "stream"
    /\ Len(binds) = 5
    /\ binds[4] = <<DataDir, P(TRUE, <<"mnt_launcher", "checkpoint_file">>), "ro">>
    /\ Len(binds[1]) = 3

====
